---- MODULE Spec2Model ----
(***************************************************************************)
(* A model of the telemetry pipeline of ContextOfTheCode: the Redis-backed *)
(* upload queue (sharedUtils/upload_queue/redis_queue.py), the messages    *)
(* collectors hand to it (collectors/base_data_collector.py) and the two   *)
(* ingestion servers it can be pointed at (server/app.py and               *)
(* pythonanywhere_api/app.py).                                             *)
(*                                                                         *)
(* Broker operations are atomic one by one (LPUSH, BRPOP, ZADD, ZREM,      *)
(* ZRANGEBYSCORE); everything the worker thread does between two of them   *)
(* can interleave with put(), stop(), a process crash, a broker outage     *)
(* and the passing of time.                                                *)
(***************************************************************************)
EXTENDS Integers, Sequences, FiniteSets, TLC

\* ------------------------------------------------------------------ bounds
\* Number of messages the collectors generate in one run.
MaxPuts == 2
\* Largest max_retry_attempts of the outage scenario (SpecOutage).
MaxRetry == 2

\* Number of threads that call get_upload_queue() concurrently.
MaxCallers == 2
\* Number of loop threads one collector object can have spawned.
MaxThreads == 2
\* Number of /health polls that fit before the deadline.
MaxPolls == 2

\* ------------------------------------------------------- program constants
\* UploadQueueConfig.backoff_base, default
backoff_base == 1
\* UploadQueueConfig.backoff_multiplier, default
backoff_multiplier == 2
\* zrangebyscore(..., start=0, num=10)
DrainBatch == 10

None == "None"
\* The values of max_retry_attempts the full model is run with: none, the
\* smallest that never retries, the smallest that retries.
RetryConfigs == {0, 1, 2}
MsgIds == 1..MaxPuts
\* The device the orchestrator registered for the collector (server-issued).
RegisteredDevice == "d1"
\* The two /api/metrics implementations of the repository the queue's
\* api_endpoint can name.
Endpoints == {"server", "pythonanywhere"}

VARIABLES
    \* ---- broker state (persists across process crashes)
    pending,            \* metrics:pending, a list; index 1 is the head (left)
    retry,              \* metrics:retry, a sorted set: {[member, score]}
    failed,             \* metrics:failed, a list; index 1 is the head
    brokerUp,           \* whether Redis answers
    \* ---- the RedisUploadQueue instance of the aggregator process
    max_retry_attempts, \* config.max_retry_attempts
    api_endpoint,       \* which server config.api_endpoint points at
    redis_client,       \* None or "open"
    session,            \* None or "open"
    running,            \* self.running
    worker,             \* position of the worker thread ("none": no thread)
    ready,              \* worker local: ready_messages still to move
    cur,                \* worker local: the popped envelope (<<>>: none)
    stopping,           \* stop() has cleared running and is joining
    \* ---- time.time()
    now,
    \* ---- server/app.py tables, and the last response the server sent
    aggregators, devices, snapshots, metrics, response,
    requests,           \* POST /aggregators requests being handled, by worker
    \* ---- pythonanywhere_api/db.py tables
    messages, pa_metrics,
    \* ---- observation of the run (not program state)
    nextId,             \* next message the collectors will generate
    accepted,           \* ids whose put() returned True
    delivered,          \* ids whose upload was answered 2xx
    posts,              \* id -> number of POSTs sent for it
    \* ---- sharedUtils/upload_queue/manager.py
    queue_instance,     \* _QUEUE_INSTANCE: None or the instance
    lock,               \* _lock: 0 (free) or the caller holding it
    g_pc,               \* caller -> position inside get_upload_queue()
    g_ret,              \* caller -> what get_upload_queue() returned
    constructed,        \* number of RedisUploadQueue(...) constructions
    start_calls,        \* number of calls of start() by the manager
    \* ---- collectors (base_data_collector.py), by collector key
    c_device,           \* device_id given to the constructor (None: not built)
    c_running,          \* self._running
    c_thread,           \* self._thread: 0 (None) or the thread it names
    c_loop,             \* thread -> position of _collection_loop ("none": no
                        \* such thread, or it has ended)
    c_stop,             \* 0, or the thread a stop() call waits for in join
    \* ---- run_all.py
    main_pc,            \* position of main()
    exit_code,          \* what main() returned (-1: it has not returned)
    enabled_collectors, \* config.collectors.enabled_collectors
    flask_healthy,      \* whether GET /health is answered 200
    polls,              \* /health polls made before the deadline
    main_running,       \* the module global `running`
    agg_id,             \* aggregator_id, local of register_aggregator_and_devices
    device_ids,         \* source -> device_id issued by the server
    collectors          \* the collectors start_collectors built, in order

brokerVars == <<pending, retry, failed, brokerUp>>
queueVars == <<max_retry_attempts, api_endpoint, redis_client, session, running,
               worker, ready, cur, stopping>>
serverVars == <<aggregators, devices, snapshots, metrics, response, requests>>
paVars == <<messages, pa_metrics>>
obsVars == <<nextId, accepted, delivered, posts>>
mgrVars == <<queue_instance, lock, g_pc, g_ret, constructed, start_calls>>
collVars == <<c_device, c_running, c_thread, c_loop, c_stop>>
mainVars == <<main_pc, exit_code, enabled_collectors, flask_healthy, polls,
              main_running, agg_id, device_ids, collectors>>
hostVars == <<mgrVars, collVars, mainVars>>
vars == <<brokerVars, queueVars, now, serverVars, paVars, obsVars, hostVars>>

\* Keys of config.collectors.enabled_collectors, the source each collector
\* reports under, and the threads of the process.
Collectors == {"local", "third_party"}
SourceOf(c) == IF c = "local" THEN "local" ELSE "wikipedia"
Sources == {SourceOf(c) : c \in Collectors}
Callers == 1..MaxCallers
\* Server workers handling a request at the same time, and the idle state
\* of each.
Reqs == 1..MaxCallers
NoRequests ==
    [r \in Reqs |-> [pc |-> "idle", name |-> None, new_id |-> None,
                     status |-> 0, id |-> None]]
Threads == 1..MaxThreads

\* No manager call in progress, no collector built, main() not entered.
HostIdle ==
    /\ queue_instance = None /\ lock = 0
    /\ g_pc = [t \in Callers |-> "idle"] /\ g_ret = [t \in Callers |-> None]
    /\ constructed = 0 /\ start_calls = 0
    /\ c_device = [c \in Collectors |-> None]
    /\ c_running = [c \in Collectors |-> FALSE]
    /\ c_thread = [c \in Collectors |-> 0]
    /\ c_loop = [c \in Collectors |-> [s \in Threads |-> "none"]]
    /\ c_stop = [c \in Collectors |-> 0]
    /\ main_pc = "none" /\ exit_code = -1
    /\ enabled_collectors = {} /\ flask_healthy = FALSE /\ polls = 0
    /\ main_running = TRUE /\ agg_id = None
    /\ device_ids = [src \in Sources |-> None]
    /\ collectors = <<>>

\* ------------------------------------------------------------------- JSON
\* A JSON object is a function from its keys; d.get(k) is Has/lookup.
Has(obj, k) == k \in DOMAIN obj

\* MetricEntry(metric_name, metric_value, unit)
MetricEntry(name, value, unit) ==
    [metric_name |-> name, metric_value |-> value, unit |-> unit]

\* What collect_data() returns in the model: one reading.
SampleMetrics == <<MetricEntry("cpu", 1, "%")>>

\* DataMessage(device_id=, source=, metrics=), message_id a fresh uuid4 and
\* timestamp time.time().
DataMessage(id, ts, device_id, source, ms) ==
    [message_id |-> id, timestamp |-> ts, device_id |-> device_id,
     source |-> source, metrics |-> ms]

\* message.model_dump_json(): the fields of the model under their own names.
ModelDumpJson(m) ==
    [message_id |-> m.message_id, timestamp |-> m.timestamp,
     device_id |-> m.device_id, source |-> m.source,
     metrics |-> [i \in DOMAIN m.metrics |->
                    [metric_name |-> m.metrics[i].metric_name,
                     metric_value |-> m.metrics[i].metric_value,
                     unit |-> m.metrics[i].unit]]]

\* The envelope put() builds.
NewEnvelope(payload_json, t) ==
    [retry_count |-> 0, first_queued_at |-> t, last_error |-> None,
     payload |-> payload_json]

\* json.dumps(envelope): the text stored in the broker, fields in the order
\* the dict was built.
Dumps(env) == <<env.retry_count, env.first_queued_at, env.last_error, env.payload>>

\* json.loads(envelope_json)
Loads(text) ==
    [retry_count |-> text[1], first_queued_at |-> text[2],
     last_error |-> text[3], payload |-> text[4]]

\* A text on metrics:pending that is not JSON, written by something other
\* than put().
Poison == <<"{">>
\* A parser that would accept every text.
C33_WellFormedMutant(text) == TRUE
\* json.loads(envelope_json) does not raise json.JSONDecodeError.
WellFormed(text) == Len(text) = 4

\* The message id an envelope text carries (payload_dict.get("message_id")).
IdOf(text) == Loads(text).payload.message_id

\* ---------------------------------------------------------- broker: lists
\* LPUSH key value
LPush(list, v) == <<v>> \o list
\* A BRPOP that would leave the element in the list.
C4_RPopRestMutant(list) == list
\* A BRPOP that would take the element at the head.
C11_RPopValueMutant(list) == list[1]
\* the element BRPOP returns, and the list it leaves
RPopValue(list) == list[Len(list)]
RPopRest(list) == SubSeq(list, 1, Len(list) - 1)

\* ----------------------------------------------------- broker: sorted set
\* A ZADD that would add nothing.
C8_ZAddMutant(z, member, score) == z
\* ZADD key {member: score}: a member already present only changes score.
ZAdd(z, member, score) ==
    {e \in z : e.member # member} \cup {[member |-> member, score |-> score]}
\* A ZREM that would remove nothing.
C6_ZRemMutant(z, member) == z
\* ZREM key member
ZRem(z, member) == {e \in z : e.member # member}

\* Rank of an error text in string order, for ties of score.
ErrRank(e) ==
    CASE e = "ConnectionError" -> 1
      [] e = "HTTP 400" -> 2
      [] e = "HTTP 401" -> 3
      [] e = "HTTP 404" -> 4
      [] e = "HTTP 500" -> 5
      [] e = "Request timed out" -> 6
      [] OTHER -> 7

\* Redis orders a sorted set by score and, at equal scores, by member text.
ZBefore(a, b) ==
    \/ a.score < b.score
    \/ /\ a.score = b.score
       /\ \/ a.member[1] < b.member[1]
          \/ a.member[1] = b.member[1] /\ a.member[2] < b.member[2]
          \/ a.member[1] = b.member[1] /\ a.member[2] = b.member[2]
             /\ ErrRank(a.member[3]) < ErrRank(b.member[3])
          \/ a.member[1] = b.member[1] /\ a.member[2] = b.member[2]
             /\ ErrRank(a.member[3]) = ErrRank(b.member[3])
             /\ a.member[4].message_id < b.member[4].message_id

RECURSIVE ZOrdered(_)
ZOrdered(z) ==
    IF z = {} THEN <<>>
    ELSE LET first == CHOOSE a \in z : \A b \in z \ {a} : ~ZBefore(b, a)
         IN <<first.member>> \o ZOrdered(z \ {first})

\* A range query that would find nothing.
C31_ZRangeByScoreMutant(z, lo, hi, num) == <<>>
\* A range query that would not look at the upper score.
C30_ZRangeByScoreMutant(z, lo, hi, num) ==
    LET hit == ZOrdered({e \in z : lo <= e.score})
    IN SubSeq(hit, 1, IF Len(hit) < num THEN Len(hit) ELSE num)
\* ZRANGEBYSCORE key min max LIMIT 0 num
ZRangeByScore(z, lo, hi, num) ==
    LET hit == ZOrdered({e \in z : lo <= e.score /\ e.score <= hi})
    IN SubSeq(hit, 1, IF Len(hit) < num THEN Len(hit) ELSE num)

\* ------------------------------------------------------------ power, delay
RECURSIVE Pow(_, _)
Pow(b, n) == IF n = 0 THEN 1 ELSE b * Pow(b, n - 1)

\* A delay whose exponent is the count itself.
C27_BackoffDelayMutant(retry_count) == backoff_base * Pow(backoff_multiplier, retry_count)
\* delay = backoff_base * (backoff_multiplier ** (retry_count - 1))
BackoffDelay(retry_count) == backoff_base * Pow(backoff_multiplier, retry_count - 1)

\* ------------------------------------------------ server/app.py: registration
\* str(uuid.uuid4()): the next unused identifier of a pool.
AggregatorIds == <<"a1", "a2">>
DeviceIds == <<"d1", "d2">>
NewUuid(pool, used) == pool[Cardinality(used) + 1]

\* Names aggregators register under, and the (name, source) pairs of
\* run_all.py's source_map.
AggregatorNames == {"edge-1", "edge-2"}
DeviceKinds == {<<"local-system", "local">>, <<"wikipedia-api", "wikipedia">>}

\* ------------------------------------------------ server/app.py: POST /api/metrics
\* The status post_metrics answers for the parsed body `data`; db_error is a
\* database failure other than a duplicate key.
PostMetricsStatus(data, db_error) ==
    IF DOMAIN data = {} THEN 400
    ELSE IF ~(Has(data, "snapshot_id") /\ Has(data, "device_id")
              /\ Has(data, "timestamp")) THEN 400
    ELSE IF ~\E d \in devices : d.device_id = data.device_id THEN 404
    ELSE IF \E s \in snapshots : s.snapshot_id = data.snapshot_id THEN 500
    ELSE IF db_error THEN 500
    ELSE 201

\* A session that would keep the flushed snapshot row when a later statement
\* fails.
C23_PostMetricsSnapshotsMutant(data, db_error) ==
    IF PostMetricsStatus(data, FALSE) = 201
    THEN snapshots \cup {[snapshot_id |-> data.snapshot_id,
                          device_id |-> data.device_id,
                          collected_at |-> data.timestamp,
                          received_at |-> now]}
    ELSE snapshots
\* The snapshots table after the request: one row more on commit, the same
\* table after a rollback or an early return.
PostMetricsSnapshots(data, db_error) ==
    IF PostMetricsStatus(data, db_error) = 201
    THEN snapshots \cup {[snapshot_id |-> data.snapshot_id,
                          device_id |-> data.device_id,
                          collected_at |-> data.timestamp,
                          received_at |-> now]}
    ELSE snapshots

\* The metrics table after the request (metric_id autoincrements).
PostMetricsMetrics(data, db_error) ==
    IF PostMetricsStatus(data, db_error) = 201
    THEN LET ms == IF Has(data, "metrics") THEN data.metrics ELSE <<>>
             base == Cardinality(metrics)
         IN metrics \cup
            {[metric_id |-> base + i, snapshot_id |-> data.snapshot_id,
              metric_name |-> ms[i].metric_name,
              metric_value |-> ms[i].metric_value,
              unit |-> ms[i].unit] : i \in DOMAIN ms}
    ELSE metrics

\* ------------------------------------- pythonanywhere_api/app.py: POST /api/metrics
API_KEY == "your-secret-key-here"
\* The key the queue is configured with (config.api_key), sent as X-API-Key.
api_key == API_KEY

DataMessageFields == {"message_id", "timestamp", "device_id", "source", "metrics"}

\* require_api_key, then receive_metrics: the status answered.
ReceiveMetricsStatus(data, key, db_error) ==
    IF key = None \/ key # API_KEY THEN 401
    ELSE IF DOMAIN data = {} THEN 400
    ELSE IF ~(DataMessageFields \subseteq DOMAIN data) THEN 400
    ELSE IF \E m \in messages : m.message_id = data.message_id THEN 500
    ELSE IF db_error THEN 500
    ELSE 200

\* db.insert_message: the messages table after the request.
ReceiveMetricsMessages(data, key, db_error) ==
    IF ReceiveMetricsStatus(data, key, db_error) = 200
    THEN messages \cup {[message_id |-> data.message_id,
                         timestamp |-> data.timestamp,
                         device_id |-> data.device_id,
                         source |-> data.source]}
    ELSE messages

\* db.insert_message: the metrics table after the request.
ReceiveMetricsMetrics(data, key, db_error) ==
    IF ReceiveMetricsStatus(data, key, db_error) = 200
    THEN LET base == Cardinality(pa_metrics)
         IN pa_metrics \cup
            {[id |-> base + i, message_id |-> data.message_id,
              metric_name |-> data.metrics[i].metric_name,
              metric_value |-> data.metrics[i].metric_value]
               : i \in DOMAIN data.metrics}
    ELSE pa_metrics

\* ------------------------------------------------------------ the network
\* What can happen to one session.post: the server answers ("ok"), the
\* server handles the request but the answer is not read within the timeout
\* ("lost"), the request times out before reaching the server ("timeout"),
\* the connection is refused ("refused").
NetOutcomes == {"ok", "lost", "timeout", "refused"}
NetFailures == {"timeout", "refused"}

\* The status the configured endpoint answers for a payload.
EndpointStatus(payload, db_error) ==
    IF api_endpoint = "server" THEN PostMetricsStatus(payload, db_error)
    ELSE ReceiveMetricsStatus(payload, api_key, db_error)

ErrorText(status) ==
    CASE status = 400 -> "HTTP 400"
      [] status = 401 -> "HTTP 401"
      [] status = 404 -> "HTTP 404"
      [] OTHER -> "HTTP 500"

\* RedisUploadQueue._attempt_upload: (success, error)
AttemptUpload(payload, net, db_error) ==
    IF api_endpoint = "" THEN [success |-> FALSE, error |-> "No api_endpoint configured"]
    ELSE IF net \in {"timeout", "lost"} THEN [success |-> FALSE, error |-> "Request timed out"]
    ELSE IF net = "refused" THEN [success |-> FALSE, error |-> "ConnectionError"]
    ELSE LET status == EndpointStatus(payload, db_error)
         IN IF 200 <= status /\ status < 300
            THEN [success |-> TRUE, error |-> None]
            ELSE [success |-> FALSE, error |-> ErrorText(status)]

\* Whether session.post is called at all, and whether the server handles it.
PostSent == api_endpoint # ""
PostHandled(net) == PostSent /\ net \in {"ok", "lost"}

\* ------------------------------------------------------- RedisUploadQueue
\* A put() that would not look at the client.
C7_BrokerOkMutant == brokerUp

\* A broker call of the process: it raises AttributeError when the client is
\* None and redis.RedisError when the broker does not answer.
ClientOk == redis_client # None
BrokerOk == redis_client # None /\ brokerUp

\* A limit test that would give up one attempt early.
C37_ExhaustedMutant(retry_count) == retry_count + 1 >= max_retry_attempts
\* A limit test that would let one more retry through.
C12_ExhaustedMutant(retry_count) == retry_count > max_retry_attempts
\* A limit test that would never give an envelope up.
C28_ExhaustedMutant(retry_count) == FALSE
\* retry_count >= self.max_retry_attempts
Exhausted(retry_count) == retry_count >= max_retry_attempts

\* An update that would also stamp the envelope with the time of the attempt.
C36_MarkFailedMutant(envelope, error) ==
    [envelope EXCEPT !.retry_count = envelope.retry_count + 1,
                     !.last_error = error,
                     !.first_queued_at = now]
\* An update that would record the error and leave the count.
C29_MarkFailedMutant(envelope, error) == [envelope EXCEPT !.last_error = error]
\* retry_count += 1; envelope["retry_count"] = retry_count;
\* envelope["last_error"] = error
MarkFailed(envelope, error) ==
    [envelope EXCEPT !.retry_count = envelope.retry_count + 1,
                     !.last_error = error]

\* start(), the ping answered: client, session, running flag, worker thread.
Start ==
    /\ worker = "none" /\ redis_client = None /\ ~stopping
    /\ brokerUp
    /\ redis_client' = "open"
    /\ session' = "open"
    /\ running' = TRUE
    /\ worker' = "loop"
    /\ UNCHANGED <<brokerVars, max_retry_attempts, api_endpoint, ready, cur,
                   stopping, now, serverVars, paVars, hostVars, obsVars>>

\* start(), the ping raised: the client object stays assigned, no session
\* and no worker exist.
StartFails ==
    /\ worker = "none" /\ redis_client = None /\ ~stopping
    /\ ~brokerUp
    /\ redis_client' = "open"
    /\ UNCHANGED <<brokerVars, max_retry_attempts, api_endpoint, session, running,
                   worker, ready, cur, stopping, now, serverVars, paVars, hostVars, obsVars>>

\* put(message) for the next message a collector generates.
Put ==
    /\ nextId <= MaxPuts
    /\ LET message == DataMessage(nextId, now, RegisteredDevice, "local", SampleMetrics)
           envelope == NewEnvelope(ModelDumpJson(message), now)
       IN IF BrokerOk
          THEN /\ pending' = LPush(pending, Dumps(envelope))
               /\ accepted' = accepted \cup {nextId}
          ELSE UNCHANGED <<pending, accepted>>
    /\ nextId' = nextId + 1
    /\ UNCHANGED <<retry, failed, brokerUp, queueVars, now, serverVars, paVars, hostVars,
                   delivered, posts>>

\* A loop test that would not look at the flag.
C35_WorkerGoesOnMutant == TRUE
\* `while self.running`
WorkerGoesOn == running

\* _worker_loop: the test of `while self.running`.
WLoop ==
    /\ worker = "loop"
    /\ worker' = IF WorkerGoesOn THEN "drain" ELSE "none"
    /\ UNCHANGED <<brokerVars, max_retry_attempts, api_endpoint, redis_client,
                   session, running, ready, cur, stopping, now, serverVars,
                   paVars, hostVars, obsVars>>

\* _process_retry_queue: zrangebyscore. A RedisError ends the drain; an
\* AttributeError (client closed by stop()) ends the iteration.
WDrainScan ==
    /\ worker = "drain"
    /\ IF ~ClientOk THEN worker' = "sleep" /\ ready' = <<>>
       ELSE IF ~brokerUp THEN worker' = "pop" /\ ready' = <<>>
       ELSE LET got == ZRangeByScore(retry, 0, now, DrainBatch)
            IN /\ ready' = got
               /\ worker' = IF got = <<>> THEN "pop" ELSE "zrem"
    /\ UNCHANGED <<brokerVars, max_retry_attempts, api_endpoint, redis_client,
                   session, running, cur, stopping, now, serverVars, paVars, hostVars,
                   obsVars>>

\* _process_retry_queue: zrem of the next ready envelope.
WDrainZrem ==
    /\ worker = "zrem"
    /\ IF ~ClientOk THEN worker' = "sleep" /\ ready' = <<>> /\ retry' = retry
       ELSE IF ~brokerUp THEN worker' = "pop" /\ ready' = <<>> /\ retry' = retry
       ELSE /\ retry' = ZRem(retry, Head(ready))
            /\ worker' = "lpush"
            /\ ready' = ready
    /\ UNCHANGED <<pending, failed, brokerUp, max_retry_attempts, api_endpoint,
                   redis_client, session, running, cur, stopping, now,
                   serverVars, paVars, hostVars, obsVars>>

\* _process_retry_queue: lpush of the envelope just removed from the set.
WDrainLpush ==
    /\ worker = "lpush"
    /\ IF ~ClientOk THEN worker' = "sleep" /\ ready' = <<>> /\ pending' = pending
       ELSE IF ~brokerUp THEN worker' = "pop" /\ ready' = <<>> /\ pending' = pending
       ELSE /\ pending' = LPush(pending, Head(ready))
            /\ ready' = Tail(ready)
            /\ worker' = IF Tail(ready) = <<>> THEN "pop" ELSE "zrem"
    /\ UNCHANGED <<retry, failed, brokerUp, max_retry_attempts, api_endpoint,
                   redis_client, session, running, cur, stopping, now,
                   serverVars, paVars, hostVars, obsVars>>

\* A pop that would wait while an envelope is backing off.
C32_NothingPoppedMutant == pending = <<>> \/ \E e \in retry : e.score > now
\* `if not result`: brpop found metrics:pending empty for its one second.
NothingPopped == pending = <<>>

\* _process_pending_queue: brpop(timeout=1) and json.loads. Nothing popped
\* (empty list, RedisError, AttributeError) returns False; a popped text
\* json.loads rejects is consumed and the call returns True.
WPop ==
    /\ worker = "pop"
    /\ IF ~BrokerOk \/ NothingPopped
       THEN worker' = "sleep" /\ cur' = <<>> /\ pending' = pending
       ELSE IF ~WellFormed(RPopValue(pending))
       THEN /\ pending' = RPopRest(pending)
            /\ cur' = <<>>
            /\ worker' = "loop"
       ELSE /\ cur' = RPopValue(pending)
            /\ pending' = RPopRest(pending)
            /\ worker' = "upload"
    /\ UNCHANGED <<retry, failed, brokerUp, max_retry_attempts, api_endpoint,
                   redis_client, session, running, ready, stopping, now,
                   serverVars, paVars, hostVars, obsVars>>

\* _process_pending_queue: the one upload attempt and, when it failed, the
\* update of the envelope (retry_count += 1, last_error). The request is in
\* flight from the pop on and completes whatever stop() does to the session
\* meanwhile.
WUpload(net, db_error) ==
    /\ worker = "upload"
    /\ LET envelope == Loads(cur)
           payload_json == envelope.payload
           id == payload_json.message_id
           res == AttemptUpload(payload_json, net, db_error)
       IN /\ posts' = IF PostSent THEN [posts EXCEPT ![id] = @ + 1] ELSE posts
          /\ IF PostHandled(net) /\ api_endpoint = "server"
             THEN /\ snapshots' = PostMetricsSnapshots(payload_json, db_error)
                  /\ metrics' = PostMetricsMetrics(payload_json, db_error)
             ELSE UNCHANGED <<snapshots, metrics>>
          /\ IF PostHandled(net) /\ api_endpoint = "pythonanywhere"
             THEN /\ messages' = ReceiveMetricsMessages(payload_json, api_key, db_error)
                  /\ pa_metrics' = ReceiveMetricsMetrics(payload_json, api_key, db_error)
             ELSE UNCHANGED <<messages, pa_metrics>>
          /\ IF res.success
             THEN /\ delivered' = delivered \cup {id}
                  /\ cur' = <<>>
                  /\ worker' = "loop"
             ELSE /\ delivered' = delivered
                  /\ cur' = Dumps(MarkFailed(envelope, res.error))
                  /\ worker' = "route"
    /\ UNCHANGED <<brokerVars, max_retry_attempts, api_endpoint, redis_client,
                   session, running, ready, stopping, now, aggregators, devices,
                   response, requests, nextId, accepted, hostVars>>

\* _process_pending_queue: the failed envelope goes to metrics:failed or, with
\* its backoff score, to metrics:retry. A broker call that raises returns
\* False and the envelope the worker held is gone.
WRoute ==
    /\ worker = "route"
    /\ LET envelope == Loads(cur)
       IN IF ~BrokerOk
          THEN worker' = "sleep" /\ UNCHANGED <<retry, failed>>
          ELSE /\ worker' = "loop"
               /\ IF Exhausted(envelope.retry_count)
                  THEN failed' = LPush(failed, cur) /\ retry' = retry
                  ELSE /\ retry' = ZAdd(retry, cur,
                                        now + BackoffDelay(envelope.retry_count))
                       /\ failed' = failed
    /\ cur' = <<>>
    /\ UNCHANGED <<pending, brokerUp, max_retry_attempts, api_endpoint,
                   redis_client, session, running, ready, stopping, now,
                   serverVars, paVars, hostVars, obsVars>>

\* time.sleep(self.worker_sleep)
WSleep ==
    /\ worker = "sleep"
    /\ worker' = "loop"
    /\ UNCHANGED <<brokerVars, max_retry_attempts, api_endpoint, redis_client,
                   session, running, ready, cur, stopping, now, serverVars,
                   paVars, hostVars, obsVars>>

\* stop(): self.running = False, then the join begins.
StopSignal ==
    /\ ~stopping
    /\ redis_client # None
    /\ running' = FALSE
    /\ stopping' = TRUE
    /\ UNCHANGED <<brokerVars, max_retry_attempts, api_endpoint, redis_client,
                   session, worker, ready, cur, now, serverVars, paVars, hostVars, obsVars>>

\* The join returns when the worker thread has ended, or after its 5 seconds
\* while the worker is inside an HTTP request (timeout 10 s by default).
JoinReturns == worker = "none" \/ worker = "upload"

\* stop(): after the join, the session and the Redis client are closed and
\* set to None.
StopClose ==
    /\ stopping
    /\ JoinReturns
    /\ session' = None
    /\ redis_client' = None
    /\ stopping' = FALSE
    /\ UNCHANGED <<brokerVars, max_retry_attempts, api_endpoint, running, worker,
                   ready, cur, now, serverVars, paVars, hostVars, obsVars>>

\* The aggregator process dies: threads and their locals are gone, the broker
\* keeps its keys. A restarted process builds a new queue instance.
Crash ==
    /\ redis_client # None \/ worker # "none"
    /\ redis_client' = None
    /\ session' = None
    /\ running' = FALSE
    /\ worker' = "none"
    /\ ready' = <<>>
    /\ cur' = <<>>
    /\ stopping' = FALSE
    /\ UNCHANGED <<brokerVars, max_retry_attempts, api_endpoint, now, serverVars,
                   paVars, hostVars, obsVars>>

\* Redis becomes unreachable / reachable again; its keys persist.
BrokerDown ==
    /\ brokerUp
    /\ brokerUp' = FALSE
    /\ UNCHANGED <<pending, retry, failed, queueVars, now, serverVars, paVars, hostVars, obsVars>>

BrokerBack ==
    /\ ~brokerUp
    /\ brokerUp' = TRUE
    /\ UNCHANGED <<pending, retry, failed, queueVars, now, serverVars, paVars, hostVars, obsVars>>

\* A second passes. Time matters only against the scores of metrics:retry.
Tick ==
    /\ \E e \in retry : e.score > now
    /\ now' = now + 1
    /\ UNCHANGED <<brokerVars, queueVars, serverVars, paVars, hostVars, obsVars>>

\* ------------------------------------------------------------------- Init
\* The orchestrator has registered the aggregator and the collector's device
\* (run_all.py); the queue instance is constructed, not started.
Init ==
    /\ pending = <<>> /\ retry = {} /\ failed = <<>> /\ brokerUp = TRUE
    /\ max_retry_attempts \in RetryConfigs
    /\ api_endpoint \in Endpoints
    /\ redis_client = None /\ session = None /\ running = FALSE
    /\ worker = "none" /\ ready = <<>> /\ cur = <<>> /\ stopping = FALSE
    /\ now = 0
    /\ aggregators = {[aggregator_id |-> "a1", name |-> "edge-1"]}
    /\ devices = {[device_id |-> RegisteredDevice, aggregator_id |-> "a1",
                   name |-> "local-system", source |-> "local"]}
    /\ snapshots = {} /\ metrics = {} /\ response = [op |-> "none"]
    /\ requests = NoRequests
    /\ messages = {} /\ pa_metrics = {}
    /\ nextId = 1 /\ accepted = {} /\ delivered = {}
    /\ posts = [i \in MsgIds |-> 0]
    /\ HostIdle

Next ==
    \/ Start
    \/ StartFails
    \/ Put
    \/ WLoop
    \/ WDrainScan
    \/ WDrainZrem
    \/ WDrainLpush
    \/ WPop
    \/ \E net \in NetOutcomes, db_error \in BOOLEAN : WUpload(net, db_error)
    \/ WRoute
    \/ WSleep
    \/ StopSignal
    \/ StopClose
    \/ Crash
    \/ BrokerDown
    \/ BrokerBack
    \/ Tick

Spec == Init /\ [][Next]_vars

\* ------------------------------------------------------------- scenarios
\* The worker thread's next step, with the upload outcomes a scenario allows.
WorkerStep(nets, db_errors) ==
    \/ WLoop
    \/ WDrainScan
    \/ WDrainZrem
    \/ WDrainLpush
    \/ WPop
    \/ \E net \in nets, db_error \in db_errors : WUpload(net, db_error)
    \/ WRoute
    \/ WSleep

\* Everything works: the broker answers, the process neither stops nor
\* crashes, the endpoint accepts DataMessage payloads and every request is
\* answered.
InitHappy == Init /\ api_endpoint = "pythonanywhere"

HappyWorker ==
    \/ WLoop
    \/ WDrainScan
    \/ WPop
    \/ WUpload("ok", FALSE)
    \/ WSleep

NextHappy ==
    \/ Start
    \/ Put
    \/ HappyWorker

SpecHappy == InitHappy /\ [][NextHappy]_vars /\ WF_vars(HappyWorker)

\* The server is down: every request times out or is refused; the broker
\* answers and the process keeps running.
InitOutage ==
    /\ pending = <<>> /\ retry = {} /\ failed = <<>> /\ brokerUp = TRUE
    /\ max_retry_attempts \in 0..MaxRetry
    /\ api_endpoint \in Endpoints
    /\ redis_client = None /\ session = None /\ running = FALSE
    /\ worker = "none" /\ ready = <<>> /\ cur = <<>> /\ stopping = FALSE
    /\ now = 0
    /\ aggregators = {[aggregator_id |-> "a1", name |-> "edge-1"]}
    /\ devices = {[device_id |-> RegisteredDevice, aggregator_id |-> "a1",
                   name |-> "local-system", source |-> "local"]}
    /\ snapshots = {} /\ metrics = {} /\ response = [op |-> "none"]
    /\ requests = NoRequests
    /\ messages = {} /\ pa_metrics = {}
    /\ nextId = 1 /\ accepted = {} /\ delivered = {}
    /\ posts = [i \in MsgIds |-> 0]
    /\ HostIdle

OutageWorker == WorkerStep(NetFailures, {FALSE})

NextOutage ==
    \/ Start
    \/ Put
    \/ OutageWorker
    \/ Tick

SpecOutage ==
    InitOutage /\ [][NextOutage]_vars /\ WF_vars(OutageWorker) /\ WF_vars(Tick)

\* The endpoint fails now and then: a request is accepted, answered 500,
\* times out or is refused; the broker answers and the process keeps
\* running. max_retry_attempts is 3, the smallest limit under which an
\* envelope is retried twice (the default is 5).
InitBackoff ==
    /\ pending = <<>> /\ retry = {} /\ failed = <<>> /\ brokerUp = TRUE
    /\ max_retry_attempts = 3
    /\ api_endpoint = "pythonanywhere"
    /\ redis_client = None /\ session = None /\ running = FALSE
    /\ worker = "none" /\ ready = <<>> /\ cur = <<>> /\ stopping = FALSE
    /\ now = 0
    /\ aggregators = {[aggregator_id |-> "a1", name |-> "edge-1"]}
    /\ devices = {[device_id |-> RegisteredDevice, aggregator_id |-> "a1",
                   name |-> "local-system", source |-> "local"]}
    /\ snapshots = {} /\ metrics = {} /\ response = [op |-> "none"]
    /\ requests = NoRequests
    /\ messages = {} /\ pa_metrics = {}
    /\ nextId = 1 /\ accepted = {} /\ delivered = {}
    /\ posts = [i \in MsgIds |-> 0]
    /\ HostIdle

BackoffWorker == WorkerStep({"ok", "timeout", "refused"}, BOOLEAN)

NextBackoff ==
    \/ Start
    \/ Put
    \/ BackoffWorker
    \/ Tick

SpecBackoff == InitBackoff /\ [][NextBackoff]_vars

\* Requests are accepted or time out, and the worker thread is scheduled
\* again and again, whether or not time advances.
FreshWorker == WorkerStep({"ok", "timeout"}, {FALSE})

NextFresh ==
    \/ Start
    \/ Put
    \/ FreshWorker
    \/ Tick

SpecFresh == InitBackoff /\ [][NextFresh]_vars /\ WF_vars(FreshWorker)

\* stop() on a working queue: the worker thread is scheduled again and again,
\* every broker call and every request it makes returns, with an answer or
\* with an error (a request that times out, a call on the client stop() has
\* closed).
NextHalt ==
    \/ Start \/ Put \/ FreshWorker \/ Tick
    \/ StopSignal \/ StopClose

SpecHalt == InitBackoff /\ [][NextHalt]_vars /\ WF_vars(FreshWorker)

\* A backlog after an outage: more envelopes wait in metrics:retry than one
\* drain fetches. All were queued at time 0 and failed once; the last was
\* attempted a second later than the others, so at time 1 it is not yet due.
\* The endpoint answers again and the broker stays up.
DrainLoad == DrainBatch + 2

BacklogEnvelope(id) ==
    Dumps(MarkFailed(NewEnvelope(ModelDumpJson(
              DataMessage(id, 0, RegisteredDevice, "local", SampleMetrics)), 0),
          "Request timed out"))

InitDrain ==
    /\ pending = <<>> /\ failed = <<>> /\ brokerUp = TRUE
    /\ retry = {[member |-> BacklogEnvelope(id),
                 score |-> (IF id < DrainLoad THEN 0 ELSE 1) + BackoffDelay(1)]
                   : id \in 1..DrainLoad}
    /\ max_retry_attempts = 3
    /\ api_endpoint = "pythonanywhere"
    /\ redis_client = "open" /\ session = "open" /\ running = TRUE
    /\ worker = "loop" /\ ready = <<>> /\ cur = <<>> /\ stopping = FALSE
    /\ now = 1
    /\ aggregators = {[aggregator_id |-> "a1", name |-> "edge-1"]}
    /\ devices = {[device_id |-> RegisteredDevice, aggregator_id |-> "a1",
                   name |-> "local-system", source |-> "local"]}
    /\ snapshots = {} /\ metrics = {} /\ response = [op |-> "none"]
    /\ requests = NoRequests
    /\ messages = {} /\ pa_metrics = {}
    /\ nextId = DrainLoad + 1 /\ accepted = 1..DrainLoad /\ delivered = {}
    /\ posts = [i \in 1..DrainLoad |-> 1]
    /\ HostIdle

NextDrain ==
    \/ WLoop
    \/ WDrainScan
    \/ WDrainZrem
    \/ WDrainLpush
    \/ WPop
    \/ WUpload("ok", FALSE)
    \/ WSleep
    \/ Tick

SpecDrain == InitDrain /\ [][NextDrain]_vars

\* An outage that ends: while the endpoint is down every request times
\* out; once it is up (flask_healthy) it stays up and accepts
\* every request. The broker answers and the process keeps running.
ServerBack ==
    /\ ~flask_healthy
    /\ flask_healthy' = TRUE
    /\ UNCHANGED <<brokerVars, queueVars, now, serverVars, paVars, obsVars,
                   mgrVars, collVars, main_pc, exit_code, enabled_collectors,
                   polls, main_running, agg_id, device_ids, collectors>>

RecoveryUpload ==
    IF flask_healthy THEN WUpload("ok", FALSE)
    ELSE WUpload("timeout", FALSE)

RecoveryWorker ==
    \/ WLoop
    \/ WDrainScan
    \/ WDrainZrem
    \/ WDrainLpush
    \/ WPop
    \/ RecoveryUpload
    \/ WRoute
    \/ WSleep

NextRecovery ==
    \/ Start
    \/ Put
    \/ RecoveryWorker
    \/ Tick
    \/ ServerBack

SpecRecovery ==
    InitBackoff /\ [][NextRecovery]_vars /\ WF_vars(RecoveryWorker) /\ WF_vars(Tick)

\* Something other than the queue pushes a text that is not JSON onto
\* metrics:pending, at most one at a time; requests are accepted or time out.
PoisonPush ==
    /\ brokerUp
    /\ \A i \in DOMAIN pending : WellFormed(pending[i])
    /\ pending' = LPush(pending, Poison)
    /\ UNCHANGED <<retry, failed, brokerUp, queueVars, now, serverVars, paVars,
                   hostVars, obsVars>>

\* The queue starts on a broker whose metrics:pending already holds such a
\* text.
InitPoison ==
    /\ pending = <<Poison>> /\ retry = {} /\ failed = <<>> /\ brokerUp = TRUE
    /\ max_retry_attempts = 3
    /\ api_endpoint = "pythonanywhere"
    /\ redis_client = None /\ session = None /\ running = FALSE
    /\ worker = "none" /\ ready = <<>> /\ cur = <<>> /\ stopping = FALSE
    /\ now = 0
    /\ aggregators = {[aggregator_id |-> "a1", name |-> "edge-1"]}
    /\ devices = {[device_id |-> RegisteredDevice, aggregator_id |-> "a1",
                   name |-> "local-system", source |-> "local"]}
    /\ snapshots = {} /\ metrics = {} /\ response = [op |-> "none"]
    /\ requests = NoRequests
    /\ messages = {} /\ pa_metrics = {}
    /\ nextId = 1 /\ accepted = {} /\ delivered = {}
    /\ posts = [i \in MsgIds |-> 0]
    /\ HostIdle

NextPoison ==
    \/ Start
    \/ Put
    \/ PoisonPush
    \/ FreshWorker
    \/ Tick

SpecPoison == InitPoison /\ [][NextPoison]_vars /\ WF_vars(FreshWorker)

\* ------------------------------------------------- the server on its own
\* Largest timestamp a request body carries.
MaxStamp == 1

\* A body in the wire format of the server: snapshot_id, device_id,
\* timestamp, metrics.
SnapshotBody(snapshot_id, device_id, timestamp, ms) ==
    [snapshot_id |-> snapshot_id, device_id |-> device_id,
     timestamp |-> timestamp, metrics |-> ms]

\* A lookup that would never find the name.
C21_AggregatorByNameMutant(name) == {}
\* db.query(Aggregator).filter_by(name=name): the rows of that name.
AggregatorByName(name) == {a \in aggregators : a.name = name}

\* post_aggregators: the name is looked up; a known name answers 200 with its
\* id, a new one is inserted and answers 201.
PostAggregators(name) ==
    /\ Cardinality(aggregators) < Len(AggregatorIds)
       \/ AggregatorByName(name) # {}
    /\ IF AggregatorByName(name) # {}
       THEN LET a == CHOOSE a \in AggregatorByName(name) : TRUE
            IN /\ response' = [op |-> "post_aggregators", status |-> 200,
                               id |-> a.aggregator_id]
               /\ aggregators' = aggregators
       ELSE LET new_id == NewUuid(AggregatorIds, aggregators)
            IN /\ aggregators' = aggregators \cup
                                 {[aggregator_id |-> new_id, name |-> name]}
               /\ response' = [op |-> "post_aggregators", status |-> 201,
                               id |-> new_id]
    /\ UNCHANGED <<brokerVars, queueVars, now, devices, snapshots, metrics,
                   requests, paVars, hostVars, obsVars>>

\* post_devices: 404 for an unknown aggregator, else a new device row, 201.
PostDevices(aggregator_id, name, source) ==
    /\ Cardinality(devices) < Len(DeviceIds)
    /\ IF ~\E a \in aggregators : a.aggregator_id = aggregator_id
       THEN /\ response' = [op |-> "post_devices", status |-> 404, id |-> None]
            /\ devices' = devices
       ELSE LET device_id == NewUuid(DeviceIds, devices)
            IN /\ devices' = devices \cup
                             {[device_id |-> device_id,
                               aggregator_id |-> aggregator_id,
                               name |-> name, source |-> source]}
               /\ response' = [op |-> "post_devices", status |-> 201,
                               id |-> device_id]
    /\ UNCHANGED <<brokerVars, queueVars, now, aggregators, snapshots, metrics,
                   requests, paVars, hostVars, obsVars>>

\* post_metrics for one request body.
PostMetrics(data, db_error) ==
    /\ snapshots' = PostMetricsSnapshots(data, db_error)
    /\ metrics' = PostMetricsMetrics(data, db_error)
    /\ response' =
          IF PostMetricsStatus(data, db_error) = 201
          THEN [op |-> "post_metrics", status |-> 201, id |-> data.snapshot_id,
                metrics_received |->
                   Len(IF Has(data, "metrics") THEN data.metrics ELSE <<>>)]
          ELSE [op |-> "post_metrics",
                status |-> PostMetricsStatus(data, db_error),
                id |-> IF Has(data, "snapshot_id") THEN data.snapshot_id ELSE 0]
    /\ UNCHANGED <<brokerVars, queueVars, now, aggregators, devices, requests,
                   paVars, hostVars, obsVars>>

\* The requests the server is sent: bodies in its wire format, the payloads
\* collectors produce, and an empty body.
PostMetricsRequest ==
    \/ \E s \in MsgIds, d \in {DeviceIds[i] : i \in DOMAIN DeviceIds},
          t \in 0..MaxStamp, ms \in {<<>>, SampleMetrics}, db_error \in BOOLEAN :
          PostMetrics(SnapshotBody(s, d, t, ms), db_error)
    \/ \E s \in MsgIds, t \in 0..MaxStamp :
          PostMetrics(ModelDumpJson(DataMessage(s, t, DeviceIds[1], "local",
                                                SampleMetrics)), FALSE)
    \/ PostMetrics(<<>>, FALSE)

\* The server starts with empty tables.
InitServer ==
    /\ pending = <<>> /\ retry = {} /\ failed = <<>> /\ brokerUp = TRUE
    /\ max_retry_attempts = 0
    /\ api_endpoint = "server"
    /\ redis_client = None /\ session = None /\ running = FALSE
    /\ worker = "none" /\ ready = <<>> /\ cur = <<>> /\ stopping = FALSE
    /\ now = 0
    /\ aggregators = {} /\ devices = {}
    /\ snapshots = {} /\ metrics = {} /\ response = [op |-> "none"]
    /\ requests = NoRequests
    /\ messages = {} /\ pa_metrics = {}
    /\ nextId = 1 /\ accepted = {} /\ delivered = {}
    /\ posts = [i \in MsgIds |-> 0]
    /\ HostIdle

NextServer ==
    \/ \E name \in AggregatorNames : PostAggregators(name)
    \/ \E a \in {AggregatorIds[i] : i \in DOMAIN AggregatorIds}, k \in DeviceKinds :
          PostDevices(a, k[1], k[2])
    \/ PostMetricsRequest

SpecServer == InitServer /\ [][NextServer]_vars

\* ------------------------------------------ server/app.py: GET /api/metrics
\* Max snapshots returned when no limit parameter is given.
DEFAULT_QUERY_LIMIT == 100

\* Values of the query parameters; None and -1 stand for a parameter that is
\* not given.
QueryDevices == {None} \cup {DeviceIds[i] : i \in DOMAIN DeviceIds}
QuerySources == {None} \cup Sources
QuerySince == -1 .. MaxStamp
QueryLimits == {1, DEFAULT_QUERY_LIMIT}

\* A filter that would let the bound itself through.
C24_SinceFilterMutant(collected_at, since) == collected_at >= since
\* Snapshot.collected_at > since
SinceFilter(collected_at, since) == collected_at > since

\* The rows the filters of the query leave.
GetMetricsRows(device_id, source, since) ==
    {row \in snapshots :
        /\ device_id # None => row.device_id = device_id
        /\ source # None
           => \E d \in devices : d.device_id = row.device_id /\ d.source = source
        /\ since # -1 => SinceFilter(row.collected_at, since)}

\* order_by(asc(Snapshot.collected_at)): the orders the database can return
\* the rows in; rows of equal collected_at come in any order.
Ascending(rows) ==
    {seq \in [1..Cardinality(rows) -> rows] :
        \A i, j \in 1..Cardinality(rows) :
           i < j => seq[i] # seq[j] /\ seq[i].collected_at <= seq[j].collected_at}

\* s.metrics, as objects, in the order of metric_id.
MetricsJson(snapshot_id) ==
    LET ms == {m \in metrics : m.snapshot_id = snapshot_id}
        at(i) == CHOOSE m \in ms :
                    Cardinality({x \in ms : x.metric_id < m.metric_id}) = i - 1
    IN [i \in 1..Cardinality(ms) |->
          [metric_name |-> at(i).metric_name,
           metric_value |-> at(i).metric_value, unit |-> at(i).unit]]

\* One entry of the "snapshots" list of the answer.
SnapshotJson(row) ==
    [snapshot_id |-> row.snapshot_id, device_id |-> row.device_id,
     source |-> (CHOOSE d \in devices : d.device_id = row.device_id).source,
     collected_at |-> row.collected_at, received_at |-> row.received_at,
     metrics |-> MetricsJson(row.snapshot_id)]

\* The "snapshots" lists get_metrics can answer: the first `limit` rows of an
\* ascending order of the filtered rows.
GetMetricsResults(device_id, source, since, limit) ==
    {[i \in 1..(IF Len(seq) < limit THEN Len(seq) ELSE limit) |-> SnapshotJson(seq[i])] :
        seq \in Ascending(GetMetricsRows(device_id, source, since))}

\* get_metrics for one query.
GetMetrics(device_id, source, since, limit) ==
    /\ \E result \in GetMetricsResults(device_id, source, since, limit) :
          response' = [op |-> "get_metrics", status |-> 200,
                       count |-> Len(result), snapshots |-> result]
    /\ UNCHANGED <<brokerVars, queueVars, now, aggregators, devices, snapshots,
                   metrics, requests, paVars, hostVars, obsVars>>

GetMetricsRequest ==
    \E device_id \in QueryDevices, source \in QuerySources, since \in QuerySince,
       limit \in QueryLimits : GetMetrics(device_id, source, since, limit)

\* ------------------------------- server/app.py: concurrent registrations
\* str(uuid.uuid4()) of the worker handling request r.
UuidOf(r) == <<"u1", "u2", "u3", "u4">>[r]

\* A table without the unique index on name.
C22_UniqueViolationMutant(name) == FALSE
\* models.py, Aggregator.name unique=True: the INSERT of a second row of the
\* name fails with IntegrityError.
UniqueViolation(name) == AggregatorByName(name) # {}

\* What a step of one request leaves alone.
RFrame ==
    UNCHANGED <<brokerVars, queueVars, now, devices, snapshots, metrics,
                response, paVars, hostVars, obsVars>>

\* A POST /aggregators {"name": name} reaches a free worker.
RArrive(r, name) ==
    /\ requests[r].pc \in {"idle", "done"}
    /\ requests' = [requests EXCEPT ![r] =
                      [pc |-> "lookup", name |-> name, new_id |-> None,
                       status |-> 0, id |-> None]]
    /\ aggregators' = aggregators
    /\ RFrame

\* The id of the row of a name.
IdByName(name) == (CHOOSE a \in AggregatorByName(name) : TRUE).aggregator_id

\* Lines 44-50: the lookup by name; a row found is answered 200, otherwise a
\* row with a new uuid is added to the session.
RLookup(r) ==
    /\ requests[r].pc = "lookup"
    /\ LET q == requests[r]
       IN requests' = [requests EXCEPT ![r] =
             IF AggregatorByName(q.name) # {}
             THEN [q EXCEPT !.pc = "done", !.status = 200, !.id = IdByName(q.name)]
             ELSE [q EXCEPT !.pc = "commit", !.new_id = UuidOf(r)]]
    /\ aggregators' = aggregators
    /\ RFrame

\* The `with get_db()` block is left: db.commit() sends the INSERT, which
\* commits and is answered 201, or raises IntegrityError and is rolled back.
RCommit(r) ==
    /\ requests[r].pc = "commit"
    /\ LET q == requests[r]
       IN IF UniqueViolation(q.name)
          THEN /\ aggregators' = aggregators
               /\ requests' = [requests EXCEPT ![r] = [q EXCEPT !.pc = "handler"]]
          ELSE /\ aggregators' = aggregators \cup
                                 {[aggregator_id |-> q.new_id, name |-> q.name]}
               /\ requests' = [requests EXCEPT ![r] =
                                 [q EXCEPT !.pc = "done", !.status = 201,
                                           !.id = q.new_id]]
    /\ RFrame

\* Lines 55-61, `except IntegrityError`: the name is looked up in a new
\* session; the row found is answered 200, none is answered 500.
RHandler(r) ==
    /\ requests[r].pc = "handler"
    /\ LET q == requests[r]
       IN requests' = [requests EXCEPT ![r] =
             IF AggregatorByName(q.name) # {}
             THEN [q EXCEPT !.pc = "done", !.status = 200, !.id = IdByName(q.name)]
             ELSE [q EXCEPT !.pc = "done", !.status = 500]]
    /\ aggregators' = aggregators
    /\ RFrame

\* Registrations of the same and of different names arrive at a server with
\* empty tables and are handled by concurrent workers.
NextRace ==
    \/ \E r \in Reqs, name \in AggregatorNames : RArrive(r, name)
    \/ \E r \in Reqs : RLookup(r)
    \/ \E r \in Reqs : RCommit(r)
    \/ \E r \in Reqs : RHandler(r)

SpecRace == InitServer /\ [][NextRace]_vars

\* ------------------------------------------- upload_queue/manager.py
\* The n-th RedisUploadQueue object constructed in the process.
Instance(n) == <<"queue-1", "queue-2", "queue-3", "queue-4">>[n]

\* `if _QUEUE_INSTANCE is None`, outside the lock.
FirstCheck == queue_instance = None

\* A manager that would not look again once it holds the lock.
C17_SecondCheckMutant == TRUE
\* `if _QUEUE_INSTANCE is None`, inside `with _lock`.
SecondCheck == queue_instance = None

\* What changes nothing of the manager's callers.
GFrame ==
    UNCHANGED <<brokerVars, max_retry_attempts, api_endpoint, ready, cur,
                stopping, now, serverVars, paVars, obsVars, collVars, mainVars>>

\* A thread calls get_upload_queue().
GCall(t) ==
    /\ g_pc[t] \in {"idle", "done"}
    /\ g_pc' = [g_pc EXCEPT ![t] = "check1"]
    /\ g_ret' = [g_ret EXCEPT ![t] = None]
    /\ GFrame
    /\ UNCHANGED <<queue_instance, lock, constructed, start_calls,
                   redis_client, session, running, worker>>

\* Line 29: the unlocked test.
GCheck1(t) ==
    /\ g_pc[t] = "check1"
    /\ g_pc' = [g_pc EXCEPT ![t] = IF FirstCheck THEN "lock" ELSE "return"]
    /\ GFrame
    /\ UNCHANGED <<queue_instance, lock, g_ret, constructed, start_calls,
                   redis_client, session, running, worker>>

\* Line 30: `with _lock` is entered when no other thread holds the lock.
GLock(t) ==
    /\ g_pc[t] = "lock"
    /\ lock = 0
    /\ lock' = t
    /\ g_pc' = [g_pc EXCEPT ![t] = "check2"]
    /\ GFrame
    /\ UNCHANGED <<queue_instance, g_ret, constructed, start_calls,
                   redis_client, session, running, worker>>

\* Line 31: the test under the lock.
GCheck2(t) ==
    /\ g_pc[t] = "check2"
    /\ g_pc' = [g_pc EXCEPT ![t] = IF SecondCheck THEN "construct" ELSE "release"]
    /\ GFrame
    /\ UNCHANGED <<queue_instance, lock, g_ret, constructed, start_calls,
                   redis_client, session, running, worker>>

\* Line 34: the object is constructed and assigned to the global at once.
GConstruct(t) ==
    /\ g_pc[t] = "construct"
    /\ constructed < MaxCallers
    /\ queue_instance' = Instance(constructed + 1)
    /\ constructed' = constructed + 1
    /\ g_pc' = [g_pc EXCEPT ![t] = "start"]
    /\ GFrame
    /\ UNCHANGED <<lock, g_ret, start_calls, redis_client, session, running, worker>>

\* Line 35: start() of the new object: the client is made and pinged; the
\* session, the flag and the worker thread follow, or the ping raises.
GStart(t) ==
    /\ g_pc[t] = "start"
    /\ start_calls' = start_calls + 1
    /\ redis_client' = "open"
    /\ IF brokerUp
       THEN /\ session' = "open" /\ running' = TRUE /\ worker' = "loop"
            /\ g_ret' = g_ret
       ELSE /\ UNCHANGED <<session, running, worker>>
            /\ g_ret' = [g_ret EXCEPT ![t] = "ConnectionError"]
    /\ g_pc' = [g_pc EXCEPT ![t] = "release"]
    /\ GFrame
    /\ UNCHANGED <<queue_instance, lock, constructed>>

\* The `with` block is left, normally or by the exception.
GRelease(t) ==
    /\ g_pc[t] = "release"
    /\ lock = t
    /\ lock' = 0
    /\ g_pc' = [g_pc EXCEPT ![t] =
                  IF g_ret[t] = "ConnectionError" THEN "done" ELSE "return"]
    /\ GFrame
    /\ UNCHANGED <<queue_instance, g_ret, constructed, start_calls,
                   redis_client, session, running, worker>>

\* Line 38: `return _QUEUE_INSTANCE`.
GReturn(t) ==
    /\ g_pc[t] = "return"
    /\ g_ret' = [g_ret EXCEPT ![t] = queue_instance]
    /\ g_pc' = [g_pc EXCEPT ![t] = "done"]
    /\ GFrame
    /\ UNCHANGED <<queue_instance, lock, constructed, start_calls,
                   redis_client, session, running, worker>>

\* Threads of one process calling get_upload_queue() again and again, before
\* any stop_upload_queue(), while the broker comes and goes.
InitManager == Init /\ max_retry_attempts = 1

NextManager ==
    \/ \E t \in Callers : GCall(t)
    \/ \E t \in Callers : GCheck1(t)
    \/ \E t \in Callers : GLock(t)
    \/ \E t \in Callers : GCheck2(t)
    \/ \E t \in Callers : GConstruct(t)
    \/ \E t \in Callers : GStart(t)
    \/ \E t \in Callers : GRelease(t)
    \/ \E t \in Callers : GReturn(t)
    \/ BrokerDown
    \/ BrokerBack

SpecManager == InitManager /\ [][NextManager]_vars

\* ------------------------------------------------------ BaseDataCollector
\* Positions of a _collection_loop thread: "none" (never spawned), "test"
\* (at `while self._running`), "collect" (inside collect_data), "export"
\* (metrics collected, export_to_data_model to run), "sleep" (the tick
\* returned, interval sleep), "except" (the tick raised and was logged,
\* interval sleep), "ended" (the loop has returned).
LoopLive == {"test", "collect", "export", "sleep", "except"}

\* Threads the collector object has spawned so far.
Spawned(c) == {s \in Threads : c_loop[c][s] # "none"}

\* thread.is_alive()
IsAlive(c, s) == c_loop[c][s] \in LoopLive

\* is_running()
is_running(c) == c_running[c]

\* A loop test that would not look at the flag.
C16_LoopGoesOnMutant(c) == TRUE
\* `while self._running`
LoopGoesOn(c) == c_running[c]

\* A loop without except clause: the thread would end.
C14_AfterRaiseMutant == "ended"
\* Where the loop is after the except clause of a tick that raised.
AfterRaise == "except"

\* start(): a warning and nothing else while _running is set; otherwise the
\* flag is set and a new thread is spawned and stored in self._thread.
StartEffect(c) ==
    /\ c_device[c] # None
    /\ IF c_running[c]
       THEN UNCHANGED <<c_running, c_thread, c_loop>>
       ELSE /\ Cardinality(Spawned(c)) < MaxThreads
            /\ LET s == Cardinality(Spawned(c)) + 1
               IN /\ c_running' = [c_running EXCEPT ![c] = TRUE]
                  /\ c_thread' = [c_thread EXCEPT ![c] = s]
                  /\ c_loop' = [c_loop EXCEPT ![c][s] = "test"]
    /\ UNCHANGED <<c_device, c_stop>>

\* stop(), up to the join: nothing unless _running is set; the flag is
\* cleared and, when self._thread is alive, the caller joins it.
StopBeginEffect(c) ==
    /\ c_device[c] # None
    /\ c_stop[c] = 0
    /\ IF ~c_running[c]
       THEN UNCHANGED <<c_running, c_thread, c_stop>>
       ELSE /\ c_running' = [c_running EXCEPT ![c] = FALSE]
            /\ IF c_thread[c] # 0 /\ IsAlive(c, c_thread[c])
               THEN c_stop' = [c_stop EXCEPT ![c] = c_thread[c]] /\ c_thread' = c_thread
               ELSE c_thread' = [c_thread EXCEPT ![c] = 0] /\ c_stop' = c_stop
    /\ UNCHANGED <<c_device, c_loop>>

\* join(timeout=collection_interval + 5) returns when the thread has ended,
\* or when the grace period runs out while the thread is inside a call that
\* blocks (collect_data, or the queue); a sleeping thread sees the flag
\* within a second.
CollectorJoinReturns(c) ==
    \/ ~IsAlive(c, c_stop[c])
    \/ c_loop[c][c_stop[c]] \in {"collect", "export"}

\* stop(), after the join: self._thread = None.
StopEndEffect(c) ==
    /\ c_stop[c] # 0
    /\ CollectorJoinReturns(c)
    /\ c_thread' = [c_thread EXCEPT ![c] = 0]
    /\ c_stop' = [c_stop EXCEPT ![c] = 0]
    /\ UNCHANGED <<c_device, c_running, c_loop>>

CStart(c) ==
    /\ StartEffect(c)
    /\ UNCHANGED <<brokerVars, queueVars, now, serverVars, paVars, obsVars,
                   mgrVars, mainVars>>

CStopBegin(c) ==
    /\ StopBeginEffect(c)
    /\ UNCHANGED <<brokerVars, queueVars, now, serverVars, paVars, obsVars,
                   mgrVars, mainVars>>

CStopEnd(c) ==
    /\ StopEndEffect(c)
    /\ UNCHANGED <<brokerVars, queueVars, now, serverVars, paVars, obsVars,
                   mgrVars, mainVars>>

\* _collection_loop: the interval sleep, left when the interval is over or
\* _running is cleared, and the test of `while self._running` (also the
\* first thing a new thread does).
CTest(c, s) ==
    /\ c_loop[c][s] \in {"test", "sleep", "except"}
    /\ c_loop' = [c_loop EXCEPT ![c][s] = IF LoopGoesOn(c) THEN "collect" ELSE "ended"]
    /\ UNCHANGED <<brokerVars, queueVars, now, serverVars, paVars, obsVars,
                   mgrVars, c_device, c_running, c_thread, c_stop, mainVars>>

\* Messages the threads now between collect_data and put() will still build.
InExport == {cs \in Collectors \X Threads : c_loop[cs[1]][cs[2]] = "export"}

\* generate_message: collect_data() returns its metrics, or raises.
CCollect(c, s, raises) ==
    /\ c_loop[c][s] = "collect"
    /\ raises \/ nextId + Cardinality(InExport) <= MaxPuts
    /\ c_loop' = [c_loop EXCEPT ![c][s] = IF raises THEN AfterRaise ELSE "export"]
    /\ UNCHANGED <<brokerVars, queueVars, now, serverVars, paVars, obsVars,
                   mgrVars, c_device, c_running, c_thread, c_stop, mainVars>>

\* generate_message: the DataMessage is built and export_to_data_model runs:
\* get_upload_queue() (which constructs and starts the queue on first use,
\* and raises when start() does) and put().
CExport(c, s) ==
    /\ c_loop[c][s] = "export"
    /\ lock = 0
    /\ LET message == DataMessage(nextId, now, c_device[c], SourceOf(c), SampleMetrics)
           envelope == NewEnvelope(ModelDumpJson(message), now)
           first == queue_instance = None
           raised == first /\ ~brokerUp
           queued == IF first THEN brokerUp ELSE BrokerOk
       IN /\ queue_instance' = IF first THEN Instance(constructed + 1)
                                       ELSE queue_instance
          /\ constructed' = IF first THEN constructed + 1 ELSE constructed
          /\ start_calls' = IF first THEN start_calls + 1 ELSE start_calls
          /\ redis_client' = IF first THEN "open" ELSE redis_client
          /\ IF first /\ brokerUp
             THEN session' = "open" /\ running' = TRUE /\ worker' = "loop"
             ELSE UNCHANGED <<session, running, worker>>
          /\ IF queued
             THEN /\ pending' = LPush(pending, Dumps(envelope))
                  /\ accepted' = accepted \cup {nextId}
             ELSE UNCHANGED <<pending, accepted>>
          /\ nextId' = IF raised THEN nextId ELSE nextId + 1
          /\ c_loop' = [c_loop EXCEPT ![c][s] = IF raised THEN AfterRaise ELSE "sleep"]
    /\ UNCHANGED <<retry, failed, brokerUp, max_retry_attempts, api_endpoint,
                   ready, cur, stopping, now, serverVars, paVars, delivered,
                   posts, lock, g_pc, g_ret, c_device, c_running, c_thread,
                   c_stop, mainVars>>

\* The next step of one loop thread.
CLoopStep(c, s) ==
    \/ CTest(c, s)
    \/ \E raises \in BOOLEAN : CCollect(c, s, raises)
    \/ CExport(c, s)

\* Two collectors built with the device ids the server issued, not started;
\* the queue manager has not been called yet. The steps of the queue worker
\* are those of Spec; in this scenario only what the collectors do to the
\* queue is followed.
InitCollector ==
    /\ pending = <<>> /\ retry = {} /\ failed = <<>> /\ brokerUp = TRUE
    /\ max_retry_attempts = 1
    /\ api_endpoint = "pythonanywhere"
    /\ redis_client = None /\ session = None /\ running = FALSE
    /\ worker = "none" /\ ready = <<>> /\ cur = <<>> /\ stopping = FALSE
    /\ now = 0
    /\ aggregators = {[aggregator_id |-> "a1", name |-> "edge-1"]}
    /\ devices = {[device_id |-> DeviceIds[1], aggregator_id |-> "a1",
                   name |-> "local-system", source |-> "local"],
                  [device_id |-> DeviceIds[2], aggregator_id |-> "a1",
                   name |-> "wikipedia-api", source |-> "wikipedia"]}
    /\ snapshots = {} /\ metrics = {} /\ response = [op |-> "none"]
    /\ requests = NoRequests
    /\ messages = {} /\ pa_metrics = {}
    /\ nextId = 1 /\ accepted = {} /\ delivered = {}
    /\ posts = [i \in MsgIds |-> 0]
    /\ queue_instance = None /\ lock = 0
    /\ g_pc = [t \in Callers |-> "idle"] /\ g_ret = [t \in Callers |-> None]
    /\ constructed = 0 /\ start_calls = 0
    /\ c_device = [c \in Collectors |->
                     IF c = "local" THEN DeviceIds[1] ELSE DeviceIds[2]]
    /\ c_running = [c \in Collectors |-> FALSE]
    /\ c_thread = [c \in Collectors |-> 0]
    /\ c_loop = [c \in Collectors |-> [s \in Threads |-> "none"]]
    /\ c_stop = [c \in Collectors |-> 0]
    /\ main_pc = "none" /\ exit_code = -1
    /\ enabled_collectors = Collectors /\ flask_healthy = TRUE /\ polls = 0
    /\ main_running = TRUE /\ agg_id = "a1"
    /\ device_ids = [src \in Sources |->
                       IF src = "local" THEN DeviceIds[1] ELSE DeviceIds[2]]
    /\ collectors = <<>>

\* The collector whose stop() is called at arbitrary moments; its peer is
\* started and keeps running.
Stopped == {"local"}

NextCollector ==
    \/ \E c \in Collectors : CStart(c)
    \/ \E c \in Stopped : CStopBegin(c)
    \/ \E c \in Stopped : CStopEnd(c)
    \/ \E c \in Collectors, s \in Threads : CLoopStep(c, s)
    \/ BrokerDown
    \/ BrokerBack

SpecCollector == InitCollector /\ [][NextCollector]_vars

\* One collector, started and stopped at arbitrary moments while the broker
\* answers; every loop thread gets to run.
NextStop ==
    \/ \E c \in Stopped : CStart(c)
    \/ \E c \in Stopped : CStopBegin(c)
    \/ \E c \in Stopped : CStopEnd(c)
    \/ \E c \in Stopped, s \in Threads : CLoopStep(c, s)

SpecStop ==
    /\ InitCollector
    /\ [][NextStop]_vars
    /\ \A c \in Stopped, s \in Threads : WF_vars(CLoopStep(c, s))

\* Snapshots of the two registered devices, each with a new id, arrive in
\* any order of their timestamps and the table is queried in between.
QueryInsert ==
    /\ Cardinality(snapshots) < MaxPuts
    /\ \E d \in {DeviceIds[i] : i \in DOMAIN DeviceIds}, t \in 0..MaxStamp :
          PostMetrics(SnapshotBody(Cardinality(snapshots) + 1, d, t,
                                   SampleMetrics), FALSE)

NextQuery ==
    \/ QueryInsert
    \/ GetMetricsRequest

SpecQuery == InitCollector /\ [][NextQuery]_vars

\* -------------------------------------------------------------- run_all.py
\* config.aggregator.name
AggregatorName == "edge-1"

\* (collector_key, device_name, source), in the order they are registered.
source_map ==
    <<<<"local", "local-system", "local">>,
      <<"third_party", "wikipedia-api", "wikipedia">>>>

\* The headers of the session the registration requests are sent with.
RegistrationHeaders == {"Content-Type"}

\* raise_for_status() lets the answer through.
Ok2xx(status) == status \in {200, 201}

\* Entries of source_map the registration loop has still to POST: those
\* enabled in the configuration that have no device_id yet.
ToRegister ==
    {i \in DOMAIN source_map :
        /\ source_map[i][1] \in enabled_collectors
        /\ device_ids[source_map[i][3]] = None}

\* The entry the loop is at.
NextEntry == source_map[CHOOSE i \in ToRegister : \A j \in ToRegister : i <= j]

\* A lookup that would take the first device id for every collector.
C19_DeviceIdForMutant(c) == device_ids["local"]
\* device_ids.get(source) in start_collectors
DeviceIdFor(c) == device_ids[SourceOf(c)]

\* The list start_collectors builds: local first, then third_party, each
\* only if enabled and issued a device id.
Built ==
    (IF "local" \in enabled_collectors /\ device_ids["local"] # None
     THEN <<"local">> ELSE <<>>)
    \o (IF "third_party" \in enabled_collectors /\ device_ids["wikipedia"] # None
        THEN <<"third_party">> ELSE <<>>)

\* A test that would never find the list empty.
C20_NoCollectorsMutant(list) == FALSE
\* `if not collectors`
NoCollectors(list) == list = <<>>

\* A stop loop that would find no collector to stop.
C34_ToStopMutant == {}
\* Collectors of the list that start() / stop() has still to be called on.
ToStart == {i \in DOMAIN collectors : Spawned(collectors[i]) = {}}
ToStop == {i \in DOMAIN collectors : c_running[collectors[i]]}

\* What no step of main() touches in this scenario.
MFrame ==
    UNCHANGED <<brokerVars, queueVars, now, snapshots, metrics, requests,
                paVars, obsVars, lock, g_pc, g_ret, constructed, start_calls,
                enabled_collectors>>

\* Step 1: check_redis_running().
MCheckRedis ==
    /\ main_pc = "start"
    /\ main_pc' = IF brokerUp THEN "health" ELSE "fail"
    /\ MFrame
    /\ UNCHANGED <<aggregators, devices, response, queue_instance, collVars,
                   exit_code, flask_healthy, polls, main_running, agg_id,
                   device_ids, collectors>>

\* Step 2: one round of wait_for_flask_healthy: GET /health answers 200, or
\* the poll is counted and the deadline may be reached.
MPollHealth ==
    /\ main_pc = "health"
    /\ IF flask_healthy
       THEN main_pc' = "register" /\ polls' = polls
       ELSE /\ polls' = polls + 1
            /\ main_pc' = IF polls + 1 >= MaxPolls THEN "fail" ELSE "health"
    /\ MFrame
    /\ UNCHANGED <<aggregators, devices, response, queue_instance, collVars,
                   exit_code, flask_healthy, main_running, agg_id, device_ids,
                   collectors>>

\* The server comes up while main() is waiting for it.
FlaskUp ==
    /\ main_pc \in {"start", "health"}
    /\ ~flask_healthy
    /\ flask_healthy' = TRUE
    /\ MFrame
    /\ UNCHANGED <<aggregators, devices, response, queue_instance, collVars,
                   main_pc, exit_code, polls, main_running, agg_id, device_ids,
                   collectors>>

\* Step 3, register_aggregator_and_devices: POST /aggregators is sent.
MPostAggregators ==
    /\ main_pc = "register"
    /\ main_pc' = "agg_sent"
    /\ MFrame
    /\ UNCHANGED <<aggregators, devices, response, queue_instance, collVars,
                   exit_code, flask_healthy, polls, main_running, agg_id,
                   device_ids, collectors>>

\* The server handles the POST /aggregators of main().
MServeAggregators ==
    /\ main_pc = "agg_sent"
    /\ response.op = "none"
    /\ PostAggregators(AggregatorName)

\* The request fails: a 5xx answer, a timeout or a refused connection.
MServeFails ==
    /\ main_pc \in {"agg_sent", "dev_sent"}
    /\ response.op = "none"
    /\ response' = [op |-> "error", status |-> 500, id |-> None]
    /\ MFrame
    /\ UNCHANGED <<aggregators, devices, queue_instance, collVars, mainVars>>

\* raise_for_status() and aggregator_id = resp.json()["aggregator_id"].
MRecvAggregators ==
    /\ main_pc = "agg_sent"
    /\ response.op # "none"
    /\ IF Ok2xx(response.status)
       THEN agg_id' = response.id /\ main_pc' = "devices"
       ELSE agg_id' = agg_id /\ main_pc' = "fail"
    /\ response' = [op |-> "none"]
    /\ MFrame
    /\ UNCHANGED <<aggregators, devices, queue_instance, collVars, exit_code,
                   flask_healthy, polls, main_running, device_ids, collectors>>

\* The loop over source_map: POST /devices is sent for the next enabled entry.
MPostDevices ==
    /\ main_pc = "devices"
    /\ ToRegister # {}
    /\ main_pc' = "dev_sent"
    /\ MFrame
    /\ UNCHANGED <<aggregators, devices, response, queue_instance, collVars,
                   exit_code, flask_healthy, polls, main_running, agg_id,
                   device_ids, collectors>>

\* The server handles the POST /devices of main().
MServeDevices ==
    /\ main_pc = "dev_sent"
    /\ response.op = "none"
    /\ PostDevices(agg_id, NextEntry[2], NextEntry[3])

\* raise_for_status() and device_ids[source] = resp.json()["device_id"].
MRecvDevices ==
    /\ main_pc = "dev_sent"
    /\ response.op # "none"
    /\ IF Ok2xx(response.status)
       THEN /\ device_ids' = [device_ids EXCEPT ![NextEntry[3]] = response.id]
            /\ main_pc' = "devices"
       ELSE device_ids' = device_ids /\ main_pc' = "fail"
    /\ response' = [op |-> "none"]
    /\ MFrame
    /\ UNCHANGED <<aggregators, devices, queue_instance, collVars, exit_code,
                   flask_healthy, polls, main_running, agg_id, collectors>>

\* Step 4, start_collectors up to its start loop: the enabled collectors are
\* constructed with the device ids of the dict; an empty list is returned at
\* once and main() returns 1.
MBuildCollectors ==
    /\ main_pc = "devices"
    /\ ToRegister = {}
    /\ collectors' = Built
    /\ c_device' = [c \in Collectors |->
                      IF \E i \in DOMAIN Built : Built[i] = c
                      THEN DeviceIdFor(c) ELSE None]
    /\ main_pc' = IF NoCollectors(Built) THEN "fail" ELSE "starting"
    /\ MFrame
    /\ UNCHANGED <<aggregators, devices, response, queue_instance, c_running,
                   c_thread, c_loop, c_stop, exit_code, flask_healthy, polls,
                   main_running, agg_id, device_ids>>

\* start_collectors, the start loop: start() of the next collector.
MStartCollector ==
    /\ main_pc = "starting"
    /\ ToStart # {}
    /\ StartEffect(collectors[CHOOSE i \in ToStart : \A j \in ToStart : i <= j])
    /\ MFrame
    /\ UNCHANGED <<aggregators, devices, response, queue_instance, mainVars>>

\* The start loop is over; main() goes on to wait_for_shutdown.
MStarted ==
    /\ main_pc = "starting"
    /\ ToStart = {}
    /\ main_pc' = "wait"
    /\ MFrame
    /\ UNCHANGED <<aggregators, devices, response, queue_instance, collVars,
                   exit_code, flask_healthy, polls, main_running, agg_id,
                   device_ids, collectors>>

\* signal_handler, for SIGINT or SIGTERM.
Signal ==
    /\ main_pc \notin {"none", "exited"}
    /\ main_running
    /\ main_running' = FALSE
    /\ MFrame
    /\ UNCHANGED <<aggregators, devices, response, queue_instance, collVars,
                   main_pc, exit_code, flask_healthy, polls, agg_id, device_ids,
                   collectors>>

\* wait_for_shutdown: `while running` is left.
MWaitShutdown ==
    /\ main_pc = "wait"
    /\ ~main_running
    /\ main_pc' = "stopping"
    /\ MFrame
    /\ UNCHANGED <<aggregators, devices, response, queue_instance, collVars,
                   exit_code, flask_healthy, polls, main_running, agg_id,
                   device_ids, collectors>>

\* wait_for_shutdown, the stop loop: stop() of the next collector, up to its
\* join.
MStopBegin ==
    /\ main_pc = "stopping"
    /\ ToStop # {}
    /\ StopBeginEffect(collectors[CHOOSE i \in ToStop : \A j \in ToStop : i <= j])
    /\ MFrame
    /\ UNCHANGED <<aggregators, devices, response, queue_instance, mainVars>>

\* The join of that stop() returns.
MStopEnd ==
    /\ main_pc = "stopping"
    /\ \E c \in Collectors : StopEndEffect(c)
    /\ MFrame
    /\ UNCHANGED <<aggregators, devices, response, queue_instance, mainVars>>

\* The stop loop is over and wait_for_shutdown returns.
MStopped ==
    /\ main_pc = "stopping"
    /\ ToStop = {}
    /\ \A c \in Collectors : c_stop[c] = 0
    /\ main_pc' = "shutdown"
    /\ MFrame
    /\ UNCHANGED <<aggregators, devices, response, queue_instance, collVars,
                   exit_code, flask_healthy, polls, main_running, agg_id,
                   device_ids, collectors>>

\* `finally: cleanup()` and the return: stop_upload_queue() clears the global
\* (the collectors' exports, which would have set it, are not followed in
\* this scenario); 1 is returned on the failure paths, 0 at the end of the
\* try block.
MCleanup ==
    /\ main_pc \in {"fail", "shutdown"}
    /\ queue_instance' = None
    /\ exit_code' = IF main_pc = "fail" THEN 1 ELSE 0
    /\ main_pc' = "exited"
    /\ MFrame
    /\ UNCHANGED <<aggregators, devices, response, collVars, flask_healthy,
                   polls, main_running, agg_id, device_ids, collectors>>

\* The loop threads of the collectors main() started, up to their first
\* collect_data().
MLoopTest == \E c \in Collectors, s \in Threads : CTest(c, s)

\* main() is entered with any configuration of enabled collectors, the
\* broker and the server up or down, and a server that has no devices and
\* may know the aggregator from an earlier run.
InitMain ==
    /\ pending = <<>> /\ retry = {} /\ failed = <<>> /\ brokerUp \in BOOLEAN
    /\ max_retry_attempts = 1
    /\ api_endpoint = "server"
    /\ redis_client = None /\ session = None /\ running = FALSE
    /\ worker = "none" /\ ready = <<>> /\ cur = <<>> /\ stopping = FALSE
    /\ now = 0
    /\ aggregators \in {{}, {[aggregator_id |-> "a1", name |-> AggregatorName]}}
    /\ devices = {}
    /\ snapshots = {} /\ metrics = {} /\ response = [op |-> "none"]
    /\ requests = NoRequests
    /\ messages = {} /\ pa_metrics = {}
    /\ nextId = 1 /\ accepted = {} /\ delivered = {}
    /\ posts = [i \in MsgIds |-> 0]
    /\ queue_instance = None /\ lock = 0
    /\ g_pc = [t \in Callers |-> "idle"] /\ g_ret = [t \in Callers |-> None]
    /\ constructed = 0 /\ start_calls = 0
    /\ c_device = [c \in Collectors |-> None]
    /\ c_running = [c \in Collectors |-> FALSE]
    /\ c_thread = [c \in Collectors |-> 0]
    /\ c_loop = [c \in Collectors |-> [s \in Threads |-> "none"]]
    /\ c_stop = [c \in Collectors |-> 0]
    /\ main_pc = "start" /\ exit_code = -1
    /\ enabled_collectors \in SUBSET Collectors
    /\ flask_healthy \in BOOLEAN /\ polls = 0
    /\ main_running = TRUE /\ agg_id = None
    /\ device_ids = [src \in Sources |-> None]
    /\ collectors = <<>>

\* The steps main() itself takes.
MainStep ==
    \/ MCheckRedis
    \/ MPollHealth
    \/ MPostAggregators
    \/ MRecvAggregators
    \/ MPostDevices
    \/ MRecvDevices
    \/ MBuildCollectors
    \/ MStartCollector
    \/ MStarted
    \/ MWaitShutdown
    \/ MStopBegin
    \/ MStopEnd
    \/ MStopped
    \/ MCleanup

\* What the server answers.
ServerStep ==
    \/ MServeAggregators
    \/ MServeDevices
    \/ MServeFails

NextMain ==
    \/ MCheckRedis
    \/ MPollHealth
    \/ FlaskUp
    \/ MPostAggregators
    \/ MServeAggregators
    \/ MServeFails
    \/ MRecvAggregators
    \/ MPostDevices
    \/ MServeDevices
    \/ MRecvDevices
    \/ MBuildCollectors
    \/ MStartCollector
    \/ MStarted
    \/ Signal
    \/ MWaitShutdown
    \/ MStopBegin
    \/ MStopEnd
    \/ MStopped
    \/ MCleanup
    \/ MLoopTest

SpecMain ==
    /\ InitMain
    /\ [][NextMain]_vars
    /\ WF_vars(MainStep) /\ WF_vars(ServerStep) /\ WF_vars(MLoopTest)

\* ------------------------------------------------- run_all.py: shutdown
\* The thread of main() as a holder of the manager's lock.
MainThread == MaxCallers + 1

\* cleanup(): stop_upload_queue() takes the lock; without an instance it
\* returns and main() returns 0; with one, stop() clears self.running and
\* begins to join the worker thread.
MCleanupStop ==
    /\ main_pc = "shutdown"
    /\ lock = 0
    /\ IF queue_instance = None
       THEN /\ main_pc' = "exited" /\ exit_code' = 0
            /\ UNCHANGED <<lock, running, stopping>>
       ELSE /\ main_pc' = "qstop" /\ exit_code' = exit_code
            /\ lock' = MainThread
            /\ running' = FALSE
            /\ stopping' = TRUE
    /\ UNCHANGED <<brokerVars, max_retry_attempts, api_endpoint, redis_client,
                   session, worker, ready, cur, now, serverVars, paVars, obsVars,
                   queue_instance, g_pc, g_ret, constructed, start_calls,
                   collVars, enabled_collectors, flask_healthy, polls,
                   main_running, agg_id, device_ids, collectors>>

\* stop() after the join: the session and the client are closed and set to
\* None; stop_upload_queue() clears the global and releases the lock;
\* main() returns 0.
MCleanupClose ==
    /\ main_pc = "qstop"
    /\ stopping
    /\ JoinReturns
    /\ session' = None
    /\ redis_client' = None
    /\ stopping' = FALSE
    /\ queue_instance' = None
    /\ lock' = 0
    /\ main_pc' = "exited" /\ exit_code' = 0
    /\ UNCHANGED <<brokerVars, max_retry_attempts, api_endpoint, running,
                   worker, ready, cur, now, serverVars, paVars, obsVars,
                   g_pc, g_ret, constructed, start_calls, collVars,
                   enabled_collectors, flask_healthy, polls, main_running,
                   agg_id, device_ids, collectors>>

\* main() has registered both devices and built both collectors and is at
\* the start loop; the queue does not exist yet (the first export creates
\* it); the broker and the endpoint answer.
InitShutdown ==
    /\ pending = <<>> /\ retry = {} /\ failed = <<>> /\ brokerUp = TRUE
    /\ max_retry_attempts = 1
    /\ api_endpoint = "pythonanywhere"
    /\ redis_client = None /\ session = None /\ running = FALSE
    /\ worker = "none" /\ ready = <<>> /\ cur = <<>> /\ stopping = FALSE
    /\ now = 0
    /\ aggregators = {[aggregator_id |-> "a1", name |-> "edge-1"]}
    /\ devices = {[device_id |-> DeviceIds[1], aggregator_id |-> "a1",
                   name |-> "local-system", source |-> "local"],
                  [device_id |-> DeviceIds[2], aggregator_id |-> "a1",
                   name |-> "wikipedia-api", source |-> "wikipedia"]}
    /\ snapshots = {} /\ metrics = {} /\ response = [op |-> "none"]
    /\ requests = NoRequests
    /\ messages = {} /\ pa_metrics = {}
    /\ nextId = 1 /\ accepted = {} /\ delivered = {}
    /\ posts = [i \in MsgIds |-> 0]
    /\ queue_instance = None /\ lock = 0
    /\ g_pc = [t \in Callers |-> "idle"] /\ g_ret = [t \in Callers |-> None]
    /\ constructed = 0 /\ start_calls = 0
    /\ c_device = [c \in Collectors |->
                     IF c = "local" THEN DeviceIds[1] ELSE DeviceIds[2]]
    /\ c_running = [c \in Collectors |-> FALSE]
    /\ c_thread = [c \in Collectors |-> 0]
    /\ c_loop = [c \in Collectors |-> [s \in Threads |-> "none"]]
    /\ c_stop = [c \in Collectors |-> 0]
    /\ main_pc = "starting" /\ exit_code = -1
    /\ enabled_collectors = Collectors /\ flask_healthy = TRUE /\ polls = 0
    /\ main_running = TRUE /\ agg_id = "a1"
    /\ device_ids = [src \in Sources |->
                       IF src = "local" THEN DeviceIds[1] ELSE DeviceIds[2]]
    /\ collectors = <<"local", "third_party">>

NextShutdown ==
    \/ MStartCollector
    \/ MStarted
    \/ Signal
    \/ MWaitShutdown
    \/ MStopBegin
    \/ MStopEnd
    \/ MStopped
    \/ MCleanupStop
    \/ MCleanupClose
    \/ \E c \in Collectors, s \in Threads : CLoopStep(c, s)
    \/ HappyWorker

SpecShutdown == InitShutdown /\ [][NextShutdown]_vars

\* cleanup() runs while threads of the process still call
\* get_upload_queue() (collector threads whose join timed out): main() is at
\* cleanup(), the queue does not exist yet, the broker and the endpoint
\* answer.
InitUnload ==
    /\ pending = <<>> /\ retry = {} /\ failed = <<>> /\ brokerUp = TRUE
    /\ max_retry_attempts = 1
    /\ api_endpoint = "pythonanywhere"
    /\ redis_client = None /\ session = None /\ running = FALSE
    /\ worker = "none" /\ ready = <<>> /\ cur = <<>> /\ stopping = FALSE
    /\ now = 0
    /\ aggregators = {[aggregator_id |-> "a1", name |-> "edge-1"]}
    /\ devices = {[device_id |-> RegisteredDevice, aggregator_id |-> "a1",
                   name |-> "local-system", source |-> "local"]}
    /\ snapshots = {} /\ metrics = {} /\ response = [op |-> "none"]
    /\ requests = NoRequests
    /\ messages = {} /\ pa_metrics = {}
    /\ nextId = 1 /\ accepted = {} /\ delivered = {}
    /\ posts = [i \in MsgIds |-> 0]
    /\ queue_instance = None /\ lock = 0
    /\ g_pc = [t \in Callers |-> "idle"] /\ g_ret = [t \in Callers |-> None]
    /\ constructed = 0 /\ start_calls = 0
    /\ c_device = [c \in Collectors |-> None]
    /\ c_running = [c \in Collectors |-> FALSE]
    /\ c_thread = [c \in Collectors |-> 0]
    /\ c_loop = [c \in Collectors |-> [s \in Threads |-> "none"]]
    /\ c_stop = [c \in Collectors |-> 0]
    /\ main_pc = "shutdown" /\ exit_code = -1
    /\ enabled_collectors = {} /\ flask_healthy = TRUE /\ polls = 0
    /\ main_running = FALSE /\ agg_id = "a1"
    /\ device_ids = [src \in Sources |-> None]
    /\ collectors = <<>>

NextUnload ==
    \/ \E t \in Callers : GCall(t)
    \/ \E t \in Callers : GCheck1(t)
    \/ \E t \in Callers : GLock(t)
    \/ \E t \in Callers : GCheck2(t)
    \/ \E t \in Callers : GConstruct(t)
    \/ \E t \in Callers : GStart(t)
    \/ \E t \in Callers : GRelease(t)
    \/ \E t \in Callers : GReturn(t)
    \/ MCleanupStop
    \/ MCleanupClose
    \/ WLoop \/ WDrainScan \/ WPop \/ WSleep

SpecUnload == InitUnload /\ [][NextUnload]_vars

\* ------------------------------------------------ where an envelope is
\* Number of entries of a broker list that carry message id.
CountIn(list, id) == Cardinality({i \in DOMAIN list : IdOf(list[i]) = id})

InPending(id) == CountIn(pending, id) > 0
InRetry(id) == \E e \in retry : IdOf(e.member) = id
InFailed(id) == CountIn(failed, id) > 0

\* The envelope is in one of the broker's three structures.
Stored(id) == InPending(id) \/ InRetry(id) \/ InFailed(id)

\* The envelope exists only in a local variable of the worker thread: popped
\* and not yet routed, or removed from metrics:retry and not yet pushed.
Held(id) ==
    \/ cur # <<>> /\ IdOf(cur) = id
    \/ worker = "lpush" /\ ready # <<>> /\ IdOf(Head(ready)) = id

WorkerHoldsNothing == \A id \in MsgIds : ~Held(id)

\* Number of broker structures the envelope is in.
Places(id) ==
    (IF InPending(id) THEN 1 ELSE 0) + (IF InRetry(id) THEN 1 ELSE 0)
    + (IF InFailed(id) THEN 1 ELSE 0)

\* Number of copies of the envelope, in the broker and in the worker.
Copies(id) ==
    CountIn(pending, id) + Cardinality({e \in retry : IdOf(e.member) = id})
    + CountIn(failed, id) + (IF Held(id) THEN 1 ELSE 0)

\* This step is a call of put() for message id, and what it returned.
PutCalled == nextId' = nextId + 1
PutReturnedTrue == PutCalled /\ nextId \in accepted'
PutReturnedFalse == PutCalled /\ nextId \notin accepted'

\* ----------------------------------------------------------------- claims

\* C1: whenever the worker holds no envelope in its local variables,
\* len(PENDING) + card(RETRY) + len(FAILED) + (envelopes delivered with a
\* 2xx) equals the number of put() calls that returned True.
C1_Conservation ==
    WorkerHoldsNothing =>
        Len(pending) + Cardinality(retry) + Len(failed) + Cardinality(delivered)
            = Cardinality(accepted)

\* C2: with the queue uploading to the server's POST /api/metrics, for every
\* snapshot whose put() returned True and whose envelope was neither dropped
\* nor is still on its way, once PENDING and RETRY are empty the snapshots
\* table holds exactly one row with that id.
C2_OneRowAfterDrain ==
    \A id \in accepted :
        (/\ api_endpoint = "server"
         /\ pending = <<>> /\ retry = {} /\ WorkerHoldsNothing
         /\ id \in delivered \/ InFailed(id))
        => Cardinality({s \in snapshots : s.snapshot_id = id}) = 1

\* C3: when the process dies while the worker holds an envelope it popped,
\* the envelope is afterwards in PENDING or RETRY, or it was delivered.
C3_CrashKeepsEnvelope ==
    [][\A id \in MsgIds :
          (Held(id) /\ worker' = "none")
          => (InPending(id)' \/ InRetry(id)' \/ id \in delivered')]_vars

\* C4: with the broker reachable and every upload answered 2xx, a snapshot
\* is never POSTed twice, a POSTed snapshot is delivered and, once its POST
\* is answered, in none of PENDING, RETRY and FAILED; and every snapshot
\* put() accepted is eventually POSTed and from then on in no structure.
C4_ExactlyOnce ==
    /\ [](\A id \in MsgIds :
            /\ posts[id] <= 1
            /\ posts[id] = 1 => (id \in accepted /\ id \in delivered
                                  /\ ~Stored(id) /\ ~Held(id)))
    /\ \A id \in MsgIds :
          (id \in accepted) ~> [](posts[id] = 1 /\ ~Stored(id))

\* C4 witness: two accepted snapshots, each POSTed once and gone from the
\* broker.
C4_Witness ==
    /\ Cardinality(accepted) >= 2
    /\ \A id \in accepted : posts[id] = 1 /\ id \in delivered /\ ~Stored(id)

\* C5: in every state of the server, POST /api/metrics for a snapshot_id that
\* is already stored is answered 2xx and leaves exactly one snapshots row
\* and the same metric rows for that id.
C5_DuplicateIs2xx ==
    \A s \in snapshots :
        LET again == SnapshotBody(s.snapshot_id, s.device_id, s.collected_at,
                                  SampleMetrics)
            status == PostMetricsStatus(again, FALSE)
        IN /\ 200 <= status /\ status < 300
           /\ Cardinality({r \in PostMetricsSnapshots(again, FALSE) :
                              r.snapshot_id = s.snapshot_id}) = 1
           /\ PostMetricsMetrics(again, FALSE) = metrics

\* C6: no envelope is in more than one of metrics:pending, metrics:retry and
\* metrics:failed.
C6_OnePlace == \A id \in MsgIds : Places(id) <= 1

\* C6 witness: an envelope that went pending -> retry -> pending is back in
\* PENDING with retry_count 1 while another envelope waits in RETRY.
C6_Witness ==
    /\ \E i \in DOMAIN pending : Loads(pending[i]).retry_count >= 1
    /\ retry # {}

\* C7 (as stated): put() returns False only if the broker is unreachable.
C7_FalseOnlyIfUnreachable == [][PutReturnedFalse => ~brokerUp]_vars

\* C7 (amended): put() returns False exactly when the queue has no broker
\* client (not started, or stopped) or the broker is unreachable, and then
\* changes nothing in the broker; otherwise it returns True after adding
\* exactly one envelope with retry_count 0 at the head of PENDING; in both
\* cases it leaves RETRY, FAILED and the worker alone, and it can be called
\* whatever the worker is doing.
C7_PutContract ==
    /\ [][PutCalled =>
            /\ PutReturnedFalse <=> (redis_client = None \/ ~brokerUp)
            /\ PutReturnedFalse => pending' = pending
            /\ PutReturnedTrue =>
                 /\ Len(pending') = Len(pending) + 1
                 /\ Tail(pending') = pending
                 /\ Loads(Head(pending')).retry_count = 0
                 /\ IdOf(Head(pending')) = nextId
            /\ UNCHANGED <<retry, failed, worker, cur, ready, posts, delivered>>]_vars
    /\ [](nextId <= MaxPuts => ENABLED Put)

\* C7 witness: with the broker reachable, one put() was refused by a queue
\* without client and a later one left its envelope, retry_count 0, at the
\* head of PENDING.
C7_Witness ==
    /\ brokerUp
    /\ \E id \in 1..(nextId - 1) : id \notin accepted
    /\ pending # <<>> /\ IdOf(Head(pending)) = nextId - 1
    /\ Loads(Head(pending)).retry_count = 0

\* C8: while every upload fails, each accepted envelope exists exactly once
\* (in PENDING, RETRY, FAILED or the worker's hands), and eventually every
\* accepted envelope is in FAILED exactly once, and in neither PENDING nor
\* RETRY, for ever.
C8_AllReachFailed ==
    /\ [](\A id \in MsgIds : Copies(id) = IF id \in accepted THEN 1 ELSE 0)
    /\ <>[](\A id \in accepted :
               /\ CountIn(failed, id) = 1
               /\ ~InPending(id) /\ ~InRetry(id) /\ ~Held(id))

\* C8 witness: every accepted envelope is in FAILED after at least two
\* attempts separated by a backoff delay.
C8_Witness ==
    /\ Cardinality(accepted) >= 2
    /\ \A id \in accepted : CountIn(failed, id) = 1
    /\ \E i \in DOMAIN failed : Loads(failed[i]).retry_count >= 2
    /\ now >= 1

\* C9: with the broker reachable and the process alive, the outcome of an
\* upload that failed is routed: when the worker leaves the routing step the
\* envelope is in RETRY or FAILED.
C9_StopRoutesOutcome ==
    [][\A id \in MsgIds :
          (/\ worker = "route" /\ Held(id) /\ brokerUp
           /\ worker' \notin {"route", "none"})
          => (InRetry(id)' \/ InFailed(id)')]_vars

\* C10: when a broker operation of the worker fails (client open, broker
\* unreachable), an envelope that was persisted and is in the worker's hands
\* is still in PENDING, RETRY or FAILED after the step.
C10_BrokerFailureKeepsEnvelope ==
    [][\A id \in MsgIds :
          (/\ redis_client # None /\ ~brokerUp
           /\ Held(id)
           /\ worker \in {"route", "lpush"} /\ worker' \notin {worker, "none"})
          => Stored(id)']_vars

\* retry_count and last_error of a stored envelope text.
RetryCountOf(text) == Loads(text).retry_count
LastErrorOf(text) == Loads(text).last_error

\* C11: envelopes that were never retried lie in PENDING in sample order,
\* newest at the head; the worker pops the element at the tail; and no
\* snapshot gets its first POST after a snapshot sampled later got one.
C11_Fifo ==
    /\ [](\A i, j \in DOMAIN pending :
            (i < j /\ RetryCountOf(pending[i]) = 0 /\ RetryCountOf(pending[j]) = 0)
            => IdOf(pending[i]) > IdOf(pending[j]))
    /\ [][(worker = "pop" /\ worker' = "upload")
          => /\ cur' = pending[Len(pending)]
             /\ pending' = SubSeq(pending, 1, Len(pending) - 1)]_vars
    /\ [][\A i, j \in MsgIds :
            (i < j /\ posts[j] >= 1) => ~(posts[i] = 0 /\ posts'[i] = 1)]_vars

\* C11 witness: every snapshot of the run was delivered by its first POST.
C11_Witness == \A id \in MsgIds : posts[id] = 1 /\ id \in delivered

\* C12 (as stated): every stored envelope has retry_count <= max_retry_attempts.
C12_CountAtMostLimit ==
    /\ \A i \in DOMAIN pending : RetryCountOf(pending[i]) <= max_retry_attempts
    /\ \A e \in retry : RetryCountOf(e.member) <= max_retry_attempts
    /\ \A i \in DOMAIN failed : RetryCountOf(failed[i]) <= max_retry_attempts

\* C12 (amended): an envelope in PENDING has retry_count 0 or below the
\* limit, one in RETRY has 1 <= retry_count < max_retry_attempts, and one in
\* FAILED has retry_count = max_retry_attempts, or 1 when the limit is 0.
C12_RetryCountBound ==
    /\ \A i \in DOMAIN pending :
          \/ RetryCountOf(pending[i]) = 0
          \/ RetryCountOf(pending[i]) < max_retry_attempts
    /\ \A e \in retry :
          1 <= RetryCountOf(e.member) /\ RetryCountOf(e.member) < max_retry_attempts
    /\ \A i \in DOMAIN failed :
          RetryCountOf(failed[i]) =
              IF max_retry_attempts = 0 THEN 1 ELSE max_retry_attempts

\* C12 witness: with a limit of 2, one envelope is in FAILED after two failed
\* attempts while another waits in RETRY after one.
C12_Witness ==
    /\ max_retry_attempts = 2
    /\ \E i \in DOMAIN failed : RetryCountOf(failed[i]) = 2
    /\ \E e \in retry : RetryCountOf(e.member) = 1

\* C13: no envelope whose upload was answered with a 4xx status other than
\* 408 and 429 is in RETRY, and no such envelope is POSTed a second time.
C13_ClientErrorNotRetried ==
    /\ \A e \in retry :
          LastErrorOf(e.member) \notin {"HTTP 400", "HTTP 401", "HTTP 404"}
    /\ \A i \in DOMAIN failed :
          LastErrorOf(failed[i]) \in {"HTTP 400", "HTTP 401", "HTTP 404"}
          => posts[IdOf(failed[i])] = 1

\* C14: when collect_data() raises, the tick enqueues nothing, _running is
\* not cleared, the other threads, the other collectors and the queue are
\* left as they are; the loop then sleeps and its next step is the next tick
\* (or its end, if stop() was called meanwhile).
C14_CollectErrorSkipsTick ==
    /\ [][\A c \in Collectors, s \in Threads :
            (c_loop[c][s] = "collect" /\ c_loop'[c][s] \notin {"collect", "export"})
            => /\ c_loop'[c][s] = "except"
               /\ nextId' = nextId /\ pending' = pending /\ accepted' = accepted
               /\ c_running' = c_running
               /\ \A d \in Collectors, t \in Threads :
                     <<d, t>> # <<c, s>> => c_loop'[d][t] = c_loop[d][t]
               /\ UNCHANGED <<queueVars, retry, failed, mgrVars>>]_vars
    /\ [][\A c \in Collectors, s \in Threads :
            (c_loop[c][s] = "except" /\ c_loop'[c][s] # "except")
            => c_loop'[c][s] = IF c_running[c] THEN "collect" ELSE "ended"]_vars

\* C14 witness: the local collector's tick raised and it is still running,
\* while its peer has queued a snapshot and sleeps.
C14_Witness ==
    /\ c_loop["local"][1] = "except" /\ is_running("local")
    /\ c_loop["third_party"][1] = "sleep" /\ pending # <<>>
    /\ queue_instance # None

\* C15: a collector object spawns at most one loop thread in its life:
\* start() while running or stopping, or after stop(), spawns none.
C15_StartOnlyFromNew == \A c \in Collectors : Cardinality(Spawned(c)) <= 1

\* C16: while _running is cleared no loop thread begins a tick; stop()
\* returns from its join only when the thread it waits for has ended or is
\* still inside the call in flight when the grace period ran out; and the
\* threads of a collector that is not restarted all end.
C16_StopEndsLoop ==
    /\ [][\A c \in Collectors, s \in Threads :
            (~c_running[c] /\ c_loop[c][s] # "collect")
            => c_loop'[c][s] # "collect"]_vars
    /\ [][\A c \in Collectors :
            (c_stop[c] # 0 /\ c_stop'[c] = 0)
            => c_loop[c][c_stop[c]] \in {"ended", "collect", "export"}]_vars
    /\ \A c \in Collectors :
          []<>(c_running[c] \/ \A s \in Threads : ~IsAlive(c, s))

\* C16 witness: stop() has returned, the flag is cleared and the thread,
\* which had queued a snapshot, has ended.
C16_Witness ==
    /\ ~c_running["local"] /\ c_stop["local"] = 0 /\ c_thread["local"] = 0
    /\ c_loop["local"][1] = "ended"
    /\ \E i \in DOMAIN pending :
          Loads(pending[i]).payload.source = SourceOf("local")

\* C18: export_to_data_model never raises into generate_message: a tick that
\* reached the queue always returns its message.
C18_ExportNeverRaises ==
    [][\A c \in Collectors, s \in Threads :
          (c_loop[c][s] = "export" /\ c_loop'[c][s] # "export")
          => c_loop'[c][s] = "sleep"]_vars

\* C17: however the calls of get_upload_queue() interleave, at most one
\* RedisUploadQueue is constructed and start() is called on it at most once,
\* by the caller that constructed it and before that caller leaves the lock;
\* once any call has ended exactly one was constructed; and every call that
\* returns returns that one instance.
C17_OneInstance ==
    /\ constructed <= 1 /\ start_calls <= constructed
    /\ (constructed = 1 /\ \A t \in Callers : g_pc[t] # "start") => start_calls = 1
    /\ \A t \in Callers :
          g_pc[t] = "done"
          => /\ constructed = 1
             /\ g_ret[t] \in {Instance(1), "ConnectionError"}
             /\ queue_instance = Instance(1)

\* C17 witness: two callers both found the global empty and went for the
\* lock; both calls have returned the instance.
C17_Witness ==
    /\ \A t \in {1, 2} : g_pc[t] = "done" /\ g_ret[t] = Instance(1)
    /\ lock = 0 /\ worker = "loop"

\* Positions of main() from which a collector can have been constructed.
AfterHandshake == {"starting", "wait", "stopping", "shutdown", "fail", "exited"}

\* C19: a collector is constructed, and so started, only after /health
\* answered 200, POST /aggregators issued the aggregator id and POST /devices
\* issued a device id for its source, in that order; it is constructed with
\* the device id the server stored for its source under that aggregator; and
\* when the health wait runs out nothing is registered.
C19_HandshakeBeforeCollectors ==
    /\ [](\A c \in Collectors :
            /\ Spawned(c) # {} => c_device[c] # None
            /\ c_device[c] # None
               => /\ main_pc \in AfterHandshake
                  /\ \E a \in aggregators :
                        a.aggregator_id = agg_id /\ a.name = AggregatorName
                  /\ \E d \in devices :
                        /\ d.device_id = c_device[c]
                        /\ d.source = SourceOf(c)
                        /\ d.aggregator_id = agg_id)
    /\ [](\A src \in Sources : device_ids[src] # None => agg_id # None)
    /\ []((agg_id # None \/ devices # {}) => main_pc \notin {"start", "health"})
    /\ [](polls >= MaxPolls
            => /\ agg_id = None /\ devices = {}
               /\ \A c \in Collectors : c_device[c] = None /\ Spawned(c) = {})
    /\ [][(main_pc = "health" /\ main_pc' = "register") => flask_healthy]_vars
    /\ [][(main_pc \in {"start", "health", "fail"})
            => (aggregators' = aggregators /\ devices' = devices)]_vars

\* C19 witness: both collectors were constructed with the two ids the
\* server issued and are started.
C19_Witness ==
    /\ main_pc = "wait"
    /\ c_device["local"] = DeviceIds[1] /\ c_device["third_party"] = DeviceIds[2]
    /\ \A c \in Collectors : c_running[c] /\ Spawned(c) # {}

\* C20: main() returns 0 or 1; it returns 1, with no collector started, when
\* the broker is unreachable, when every /health poll before the deadline
\* failed, and when no collector is enabled; it returns 0 only after a signal
\* and with every collector stopped; and each of these runs does return.
C20_ExitCodes ==
    /\ [](exit_code # -1 => main_pc = "exited" /\ exit_code \in {0, 1})
    /\ []((main_pc = "exited"
            /\ (~brokerUp \/ polls >= MaxPolls \/ enabled_collectors = {}))
           => /\ exit_code = 1
              /\ \A c \in Collectors : Spawned(c) = {} /\ ~c_running[c])
    /\ [](exit_code = 0
           => /\ ~main_running /\ collectors # <<>>
              /\ \A i \in DOMAIN collectors :
                    Spawned(collectors[i]) # {} /\ ~c_running[collectors[i]])
    /\ (~brokerUp \/ enabled_collectors = {}) ~> (exit_code = 1)
    /\ (polls >= MaxPolls) ~> (exit_code = 1)
    /\ (main_pc = "wait" /\ ~main_running) ~> (exit_code = 0)

\* C20 witness: no collector is enabled; the aggregator was registered and
\* main() returned 1.
C20_Witness ==
    /\ exit_code = 1 /\ enabled_collectors = {}
    /\ agg_id # None /\ brokerUp /\ polls < MaxPolls

\* C21: aggregators hold at most one row per name; a POST /aggregators is
\* answered 201 exactly when no row of the name existed, and then inserts
\* the one row whose id it answers; it is answered 200 with the id of the
\* existing row otherwise, and changes nothing.
C21_IdempotentByName ==
    /\ [](\A a, b \in aggregators : a.name = b.name => a = b)
    /\ [][(response'.op = "post_aggregators")
            => \E row \in aggregators' :
                  /\ row.aggregator_id = response'.id
                  /\ \A b \in aggregators' : b.name = row.name => b = row
                  /\ IF \E b \in aggregators : b.name = row.name
                     THEN response'.status = 200 /\ aggregators' = aggregators
                     ELSE /\ response'.status = 201
                          /\ aggregators' = aggregators \cup {row}]_vars

\* C21 witness: both names are registered and a second registration of one
\* of them was answered 200 with the id of its row.
C21_Witness ==
    /\ response.op = "post_aggregators" /\ response.status = 200
    /\ Cardinality(aggregators) = 2
    /\ \E a \in aggregators : a.aggregator_id = response.id

\* C22: however the lookups and commits of concurrent POST /aggregators
\* requests interleave, aggregators hold at most one row per name, and every
\* request that has been answered was answered 200 or 201 with the
\* aggregator_id of the row of its name.
C22_ConcurrentRegistrationsConverge ==
    /\ \A a, b \in aggregators : a.name = b.name => a = b
    /\ \A r \in Reqs :
          requests[r].pc = "done"
          => /\ requests[r].status \in {200, 201}
             /\ \E a \in aggregators :
                   a.name = requests[r].name /\ a.aggregator_id = requests[r].id

\* C22 witness: two requests for one name both found no row; the first
\* committed and was answered 201, the second ran into the unique index and
\* was answered 200 with the same id.
C22_Witness ==
    /\ requests[1].pc = "done" /\ requests[2].pc = "done"
    /\ requests[1].name = requests[2].name
    /\ requests[1].status = 201 /\ requests[2].status = 200
    /\ requests[2].new_id # None
    /\ requests[1].id = requests[2].id

\* C23: a POST /api/metrics answered 201 has added exactly one snapshot row,
\* the one of the id it answers, and exactly the N metric rows of the body,
\* all of that snapshot; one answered anything else (400, 404, 500) has left
\* snapshots and metrics as they were.
C23_AllOrNothing ==
    [][(response'.op = "post_metrics")
        => IF response'.status = 201
           THEN /\ \E row \in snapshots' \ snapshots :
                      /\ snapshots' = snapshots \cup {row}
                      /\ row.snapshot_id = response'.id
                /\ metrics \subseteq metrics'
                /\ Cardinality(metrics' \ metrics) = response'.metrics_received
                /\ \A m \in metrics' \ metrics : m.snapshot_id = response'.id
           ELSE snapshots' = snapshots /\ metrics' = metrics]_vars

\* C23 witness: a body with one metric was stored, and a later request was
\* answered 500.
C23_Witness ==
    /\ response.op = "post_metrics" /\ response.status = 500
    /\ Cardinality(snapshots) = 1 /\ Cardinality(metrics) = 1

\* C25: a POST /aggregators or POST /devices sent without X-API-Key, as the
\* registration session of main() sends them, is answered 401 (and so stores
\* no row).
C25_WriteNeedsApiKey ==
    ("X-API-Key" \notin RegistrationHeaders
     /\ response.op \in {"post_aggregators", "post_devices"})
    => /\ response.status = 401
       /\ devices = {} /\ \A a \in aggregators : a.aggregator_id # response.id

\* C24: whatever rows the table holds and in whatever order they were
\* inserted, every list GET /api/metrics can answer is in ascending order of
\* collected_at, holds only rows that pass the filters, with collected_at
\* strictly greater than `since` when it is given, and leaves out no row
\* older than one it returns.
C24_AscendingAndSince ==
    \A device_id \in QueryDevices, source \in QuerySources,
       since \in QuerySince, limit \in QueryLimits :
       \A result \in GetMetricsResults(device_id, source, since, limit) :
          /\ \A i, j \in DOMAIN result :
                i < j => result[i].collected_at <= result[j].collected_at
          /\ \A i \in DOMAIN result :
                /\ since # -1 => result[i].collected_at > since
                /\ \E row \in snapshots : row.snapshot_id = result[i].snapshot_id
          /\ \A row \in snapshots :
                (/\ since # -1 => row.collected_at > since
                 /\ device_id # None => row.device_id = device_id
                 /\ source # None
                    => \E d \in devices :
                          d.device_id = row.device_id /\ d.source = source)
                => \/ \E i \in DOMAIN result : result[i].snapshot_id = row.snapshot_id
                   \/ /\ Len(result) = limit
                      /\ \A i \in DOMAIN result :
                            result[i].collected_at <= row.collected_at

\* C24 witness: the snapshot collected later was inserted first (its metric
\* row has the smaller id), and a query with since = 0 was answered with it
\* alone, while the table holds both.
C24_Witness ==
    /\ response.op = "get_metrics" /\ response.count = 1
    /\ response.snapshots[1].collected_at = 1
    /\ \E a, b \in snapshots :
          /\ a.collected_at = 1 /\ b.collected_at = 0
          /\ \E m, n \in metrics :
                /\ m.snapshot_id = a.snapshot_id /\ n.snapshot_id = b.snapshot_id
                /\ m.metric_id < n.metric_id

\* C26: with the queue uploading to the server's POST /api/metrics, no
\* payload of a collector's message is answered 400, and every message whose
\* upload succeeded is a row GET /api/metrics?device_id= returns, with the
\* metrics of the message by name, value and unit.
C26_RoundTrip ==
    api_endpoint = "server" =>
       /\ \A e \in retry : LastErrorOf(e.member) # "HTTP 400"
       /\ \A i \in DOMAIN failed : LastErrorOf(failed[i]) # "HTTP 400"
       /\ cur # <<>> => LastErrorOf(cur) # "HTTP 400"
       /\ \A id \in delivered :
             \A result \in GetMetricsResults(RegisteredDevice, None, -1,
                                             DEFAULT_QUERY_LIMIT) :
                \E i \in DOMAIN result :
                   /\ result[i].snapshot_id = id
                   /\ result[i].metrics = SampleMetrics

\* The error texts of the failures the queue calls transient here: a 5xx
\* answer, a timeout, a connection error.
TransientErrors == {"HTTP 500", "Request timed out", "ConnectionError"}

\* C27: when the worker routes an envelope whose upload failed transiently
\* and whose incremented retry_count is below max_retry_attempts, and the
\* broker answers, the envelope becomes a member of RETRY with score
\* now + backoff_base * backoff_multiplier^(retry_count - 1); PENDING and
\* FAILED are left as they are and the worker no longer holds it.
C27_TransientGoesToRetry ==
    [][(/\ worker = "route" /\ worker' = "loop"
        /\ LastErrorOf(cur) \in TransientErrors
        /\ RetryCountOf(cur) < max_retry_attempts)
       => /\ retry' = {e \in retry : e.member # cur} \cup
                      {[member |-> cur,
                        score |-> now + backoff_base
                                    * Pow(backoff_multiplier, RetryCountOf(cur) - 1)]}
          /\ pending' = pending /\ failed' = failed /\ cur' = <<>>]_vars

\* C27 witness: after its second failed attempt, an HTTP 500, an envelope is
\* in RETRY with retry_count 2 and a score 2 seconds ahead, and nowhere else.
C27_Witness ==
    \E e \in retry :
       /\ RetryCountOf(e.member) = 2 /\ LastErrorOf(e.member) = "HTTP 500"
       /\ e.score = now + 2 /\ worker = "loop"
       /\ ~InPending(IdOf(e.member)) /\ ~InFailed(IdOf(e.member))

\* C28: when the worker routes an envelope that was attempted with
\* retry_count = max_retry_attempts - 1 and failed, and the broker answers,
\* the envelope is pushed to FAILED; RETRY and PENDING are left as they are.
C28_LastAttemptGoesToFailed ==
    [][(/\ worker = "route" /\ worker' = "loop"
        /\ RetryCountOf(cur) - 1 = max_retry_attempts - 1)
       => /\ failed' = <<cur>> \o failed
          /\ retry' = retry /\ pending' = pending /\ cur' = <<>>]_vars

\* C28 witness: an envelope that failed max_retry_attempts times is in
\* FAILED and neither in RETRY nor in PENDING.
C28_Witness ==
    \E i \in DOMAIN failed :
       /\ RetryCountOf(failed[i]) = max_retry_attempts
       /\ posts[IdOf(failed[i])] = max_retry_attempts
       /\ ~InRetry(IdOf(failed[i])) /\ ~InPending(IdOf(failed[i]))

\* The retry counts of the copies of the envelope of message id, wherever
\* they are: the three broker keys, the envelope the worker popped, the
\* envelopes the worker read from RETRY and has still to move.
CountsOf(id) ==
    {RetryCountOf(pending[i]) : i \in {j \in DOMAIN pending : IdOf(pending[j]) = id}}
    \cup {RetryCountOf(e.member) : e \in {x \in retry : IdOf(x.member) = id}}
    \cup {RetryCountOf(failed[i]) : i \in {j \in DOMAIN failed : IdOf(failed[j]) = id}}
    \cup (IF cur # <<>> /\ IdOf(cur) = id THEN {RetryCountOf(cur)} ELSE {})
    \cup {RetryCountOf(ready[i]) : i \in {j \in DOMAIN ready : IdOf(ready[j]) = id}}

\* C29: in every step and for every envelope, no copy of the envelope has a
\* smaller retry_count after the step than a copy had before; a failed upload
\* attempt raises the count by exactly 1; an accepted put() creates the
\* envelope with count 0; the moves of the drain leave the count as it is;
\* every other step, a successful attempt among them, creates no new count.
C29_RetryCountMonotone ==
    [][\A id \in MsgIds :
          LET failedAttempt ==
                  worker = "upload" /\ worker' = "route" /\ IdOf(cur) = id
              accepted_put == PutReturnedTrue /\ id = nextId
              drainMove ==
                  \/ worker = "zrem" /\ worker' = "lpush"
                  \/ worker = "lpush" /\ worker' # "lpush" /\ pending' # pending
          IN /\ \A n \in CountsOf(id)' : \A m \in CountsOf(id) : n >= m
             /\ failedAttempt
                => CountsOf(id) # {} /\ CountsOf(id)' = {m + 1 : m \in CountsOf(id)}
             /\ accepted_put => CountsOf(id) = {} /\ CountsOf(id)' = {0}
             /\ drainMove => CountsOf(id)' = CountsOf(id)
             /\ (~failedAttempt /\ ~accepted_put)
                => CountsOf(id)' \subseteq CountsOf(id)]_vars

\* C29 witness: an envelope that failed once, waited in RETRY and was moved
\* back is in PENDING with retry_count 1, while a later envelope that was
\* delivered at its first attempt has left no copy.
C29_Witness ==
    /\ \E i \in DOMAIN pending :
          RetryCountOf(pending[i]) = 1 /\ CountsOf(IdOf(pending[i])) = {1}
    /\ \E id \in delivered : posts[id] = 1 /\ CountsOf(id) = {}

\* C30: PENDING gains an envelope that was retried (retry_count > 0) only
\* by the lpush of the worker's drain, and it is the envelope the drain just
\* removed from RETRY; RETRY loses a member only by the zrem of the drain,
\* the member is the next one the scan returned and its score is <= now; the
\* scan returns members of RETRY with score <= now, each once; and the drain
\* works on at most 10 envelopes.
C30_DrainOnlyWhenDue ==
    [][/\ (\E i \in DOMAIN pending' :
             /\ RetryCountOf(pending'[i]) > 0
             /\ CountIn(pending', IdOf(pending'[i])) > CountIn(pending, IdOf(pending'[i])))
          => /\ worker = "lpush" /\ ready # <<>>
             /\ pending' = <<Head(ready)>> \o pending
             /\ ready' = Tail(ready)
             /\ \A e \in retry : e.member # Head(ready)
       /\ \A e \in retry :
             (\A x \in retry' : x.member # e.member)
             => /\ worker = "zrem" /\ worker' = "lpush"
                /\ e.member = Head(ready)
                /\ e.score <= now
       /\ (worker = "drain" /\ worker' = "zrem")
          => /\ \A i \in DOMAIN ready' :
                   \E e \in retry : e.member = ready'[i] /\ e.score <= now
             /\ \A i, j \in DOMAIN ready' : i # j => ready'[i] # ready'[j]
       /\ Len(ready') <= 10
       /\ (worker \in {"zrem", "lpush"} /\ worker' \in {"zrem", "lpush"})
          => ready' \in {ready, Tail(ready)}]_vars

\* C30 witness: one drain has moved exactly 10 envelopes to PENDING and ended,
\* while RETRY still holds an envelope that is due and one that is not.
C30_Witness ==
    /\ worker = "pop" /\ Len(pending) = 10 /\ ready = <<>>
    /\ \A i \in DOMAIN pending : RetryCountOf(pending[i]) = 1
    /\ \E e \in retry : e.score <= now
    /\ \E e \in retry : e.score > now

\* The envelope of message id is in the queue and its retries are not
\* exhausted.
Retriable(id) ==
    CountsOf(id) # {} /\ \A n \in CountsOf(id) : n < max_retry_attempts

\* C31: once the endpoint is up again, every envelope that is then in the
\* queue with its retries not exhausted is eventually delivered and gone from
\* the queue, and until then it stays out of FAILED with its retries not
\* exhausted; a delivered message has exactly one row at the endpoint, has
\* left no copy and is not POSTed again.
C31_RecoversBeforeExhaustion ==
    /\ \A id \in MsgIds :
          (flask_healthy /\ Retriable(id)) ~> (id \in delivered /\ Copies(id) = 0)
    /\ [][\A id \in MsgIds :
            (flask_healthy /\ Retriable(id))
            => /\ ~InFailed(id)'
               /\ Retriable(id)' \/ (id \in delivered' /\ CountsOf(id)' = {})]_vars
    /\ [](\A id \in delivered :
            /\ Cardinality({m \in messages : m.message_id = id}) = 1
            /\ Copies(id) = 0)
    /\ [][\A id \in delivered : posts'[id] = posts[id]]_vars

\* C31 witness: a message that failed twice while the endpoint was down was
\* delivered by its third POST, after the endpoint came back.
C31_Witness ==
    \E id \in delivered :
       /\ flask_healthy /\ posts[id] = 3 /\ Copies(id) = 0 /\ failed = <<>>
       /\ \E m \in messages : m.message_id = id

\* C32: an envelope in PENDING is eventually popped and attempted whether or
\* not time advances, so whatever waits in RETRY; the worker sleeps only
\* after a pop that found PENDING empty, and after scheduling a retry it goes
\* straight to its next iteration.
C32_BackoffDoesNotBlock ==
    /\ \A id \in MsgIds :
          InPending(id) ~> (worker = "upload" /\ cur # <<>> /\ IdOf(cur) = id)
    /\ [][(worker # "sleep" /\ worker' = "sleep")
          => (worker = "pop" /\ pending = <<>>)]_vars
    /\ [][worker = "route" => worker' \in {"route", "loop"}]_vars

\* C32 witness: the worker is attempting a message for the first time while
\* another envelope waits in RETRY with a score in the future.
C32_Witness ==
    /\ worker = "upload" /\ cur # <<>> /\ posts[IdOf(cur)] = 0
    /\ \E e \in retry : e.score > now /\ IdOf(e.member) # IdOf(cur)

\* C33: the pop of a text that is not JSON removes it from PENDING and
\* writes it nowhere, sends no POST, and leaves the worker at the start of
\* its next iteration; no such text is ever in RETRY, in FAILED or held for
\* an upload; and every well-formed envelope in PENDING is eventually
\* attempted.
C33_PoisonIsDropped ==
    /\ [][(/\ worker = "pop" /\ worker' # "pop" /\ pending # <<>>
           /\ ~(Len(pending[Len(pending)]) = 4))
          => /\ pending' = SubSeq(pending, 1, Len(pending) - 1)
             /\ retry' = retry /\ failed' = failed /\ cur' = <<>>
             /\ posts' = posts /\ messages' = messages
             /\ worker' = "loop"]_vars
    /\ [](/\ \A e \in retry : Len(e.member) = 4
          /\ \A i \in DOMAIN failed : Len(failed[i]) = 4
          /\ cur # <<>> => Len(cur) = 4)
    /\ \A id \in MsgIds :
          (\E i \in DOMAIN pending : Len(pending[i]) = 4 /\ IdOf(pending[i]) = id)
          ~> (worker = "upload" /\ cur # <<>> /\ IdOf(cur) = id)

\* C33 witness: the text that was at the tail of PENDING when the queue
\* started is gone without a trace and the worker is attempting the first
\* envelope that was queued behind it.
C33_Witness ==
    /\ worker = "upload" /\ cur # <<>> /\ IdOf(cur) = 1
    /\ \A id \in MsgIds : posts[id] = 0
    /\ \A i \in DOMAIN pending : Len(pending[i]) = 4
    /\ retry = {} /\ failed = <<>> /\ messages = {}

\* C34: the queue's stop() is called only from cleanup(), after the stop
\* loop of wait_for_shutdown has called stop() on every collector and every
\* one of these calls has returned; that step clears self.running and closes
\* nothing; and the session and the broker client are closed only after the
\* flag was cleared and the join of the worker thread has returned.
C34_ShutdownOrder ==
    /\ [][(~stopping /\ stopping')
          => /\ main_pc = "shutdown"
             /\ \A i \in DOMAIN collectors :
                   /\ ~c_running[collectors[i]]
                   /\ c_stop[collectors[i]] = 0
                   /\ c_thread[collectors[i]] = 0
             /\ running' = FALSE
             /\ session' = session /\ redis_client' = redis_client]_vars
    /\ [][((session # None /\ session' = None)
           \/ (redis_client # None /\ redis_client' = None))
          => /\ stopping /\ ~running
             /\ worker \in {"none", "upload"}
             /\ session' = None /\ redis_client' = None]_vars

\* C34 witness: main() returned 0 after stopping both collectors and then
\* the queue an export had created: the worker thread has ended and the
\* session and the client are closed.
C34_Witness ==
    /\ main_pc = "exited" /\ exit_code = 0
    /\ constructed = 1 /\ queue_instance = None
    /\ worker = "none" /\ session = None /\ redis_client = None
    /\ \A c \in Collectors : ~c_running[c] /\ c_loop[c][1] = "ended"

\* C35: the worker thread enters an iteration only while self.running is
\* set; with the flag cleared, the loop test ends the thread; and a worker
\* thread that is alive while the flag is cleared eventually ends.
C35_WorkerEndsAfterStop ==
    /\ [][(worker = "loop" /\ worker' = "drain") => running]_vars
    /\ [][(worker = "loop" /\ ~running /\ worker' # "loop") => worker' = "none"]_vars
    /\ (~running /\ worker # "none") ~> (worker = "none")

\* C35 witness: stop() is waiting in its join, the worker thread it had
\* signalled has ended, and envelopes are left in PENDING for which no
\* further iteration was started.
C35_Witness ==
    /\ stopping /\ ~running /\ worker = "none"
    /\ session # None /\ redis_client # None
    /\ pending # <<>>

\* The envelope texts of message id, wherever they are: the three broker
\* keys and the locals of the worker thread.
TextsOf(id) ==
    {pending[i] : i \in {j \in DOMAIN pending : IdOf(pending[j]) = id}}
    \cup {e.member : e \in {x \in retry : IdOf(x.member) = id}}
    \cup {failed[i] : i \in {j \in DOMAIN failed : IdOf(failed[j]) = id}}
    \cup (IF cur # <<>> /\ IdOf(cur) = id THEN {cur} ELSE {})
    \cup {ready[i] : i \in {j \in DOMAIN ready : IdOf(ready[j]) = id}}

\* The payload and the first_queued_at of those envelopes.
FixedPartsOf(id) ==
    {<<Loads(x).payload, Loads(x).first_queued_at>> : x \in TextsOf(id)}

\* C36: the payload and first_queued_at of an envelope are, when it first
\* exists, the ones put() builds from the message and the clock, and no step
\* afterwards gives any copy of the envelope another payload or another
\* first_queued_at; a POST for a message is sent by the worker from the
\* envelope it holds, and what the server stores from it is that payload.
C36_PayloadAndFirstQueuedFixed ==
    /\ [][\A id \in MsgIds :
            IF FixedPartsOf(id) = {}
            THEN /\ FixedPartsOf(id)' \subseteq
                      {<<ModelDumpJson(DataMessage(id, now, RegisteredDevice,
                                                   "local", SampleMetrics)), now>>}
                 /\ FixedPartsOf(id)' # {} => nextId = id /\ nextId' = id + 1
            ELSE FixedPartsOf(id)' \subseteq FixedPartsOf(id)]_vars
    /\ [][\A id \in MsgIds :
            posts'[id] # posts[id] =>
                /\ posts'[id] = posts[id] + 1
                /\ worker = "upload" /\ cur # <<>> /\ IdOf(cur) = id
                /\ \A row \in messages' \ messages :
                       LET payload == Loads(cur).payload
                       IN row = [message_id |-> payload.message_id,
                                 timestamp |-> payload.timestamp,
                                 device_id |-> payload.device_id,
                                 source |-> payload.source]]_vars

\* C36 witness: an envelope put at time 0 has failed three attempts, two of
\* them after a drain of RETRY, and lies in FAILED at time 3 (after the delays 1 and
\* 2) with its first_queued_at and payload timestamp still 0.
C36_Witness ==
    \E i \in DOMAIN failed :
        /\ RetryCountOf(failed[i]) = 3
        /\ LastErrorOf(failed[i]) # None
        /\ posts[IdOf(failed[i])] = 3
        /\ Loads(failed[i]).first_queued_at = 0
        /\ Loads(failed[i]).payload.timestamp = 0
        /\ now = 3

\* The number of POSTs after which an envelope that keeps failing is given up.
AttemptsAllowed == IF max_retry_attempts = 0 THEN 1 ELSE max_retry_attempts

C38_ReturnedIsStarted ==
    \A t \in Callers :
       (g_pc[t] = "done" /\ g_ret[t] = Instance(1))
       => /\ redis_client = "open" /\ session = "open"
          /\ running /\ worker # "none"

\* C39: a call of get_upload_queue() that has returned did not return None,
\* however it interleaved with stop_upload_queue().
C39_NeverReturnsNone ==
    \A t \in Callers : g_pc[t] = "done" => g_ret[t] # None

\* The collection-loop threads of collector c that are alive.
AliveLoops(c) == {s \in Threads : IsAlive(c, s)}

\* C40: when the last call on a collector was a start() that began after
\* every stop() had returned (no stop() in progress, self._thread set), at
\* most one collection-loop thread of the collector is alive.
C40_OneLoopThread ==
    \A c \in Collectors :
       (c_stop[c] = 0 /\ c_thread[c] # 0) => Cardinality(AliveLoops(c)) <= 1

====
